---- MODULE Spec2Model ----
(***************************************************************************)
(* Apple store scraper: the cross-region merger of the five scrapers       *)
(* (iphone.py, ipad.py, mac.py, watch.py, airpods.py) and the colour       *)
(* consolidator (smart_consolidate_colors.py).                             *)
(*                                                                         *)
(* A product name is a sequence of its whitespace-separated words, a       *)
(* DataFrame is a sequence of rows, a row is a record of its cells.        *)
(***************************************************************************)
EXTENDS Integers, Sequences, FiniteSets, TLC

VARIABLES
    product_type,   \* which scraper script runs: "iphone", "ipad", "mac", "watch", "airpods"
    pc,             \* position of the scraper's main(): "start", "fetch", "merge", "done"
    model_order,    \* the order in which get_all_products iterates over the models
    page,           \* index of the next (model, region) page of the double loop
    site,           \* what each page returned when it was fetched
    all_products,   \* get_all_products: the list of raw records collected so far
    merged_df,      \* merge_product_data: merged_df after the fillna loop
    output_df,      \* merge_product_data: the returned DataFrame
    requests,       \* the requests.get calls of the run so far, in order
    ctype,          \* the product_type handed to process_product_file
    cpc,            \* position of the consolidation: "merged", "csv", "done", "again", "raised"
    cmerged,        \* the merged DataFrame the scraper wrote
    csv_rows,       \* <line>_products_merged.csv as pd.read_csv reads it back
    consolidated,   \* the DataFrame returned by consolidate_products
    reconsolidated, \* consolidate_products applied to its own output
    fname,          \* the function called on its own: its name
    farg,           \* the argument of the call
    fres,           \* the results of the calls made so far, in order
    pline,          \* the product line whose scraper the pipeline runs
    ppc,            \* the stage the pipeline is about to run: "scrape", "consolidate", "convert"
    run,            \* the number of the pipeline run
    merged_csv,     \* <line>_products_merged.csv of every line
    consolidated_csv, \* <line>_products_consolidated.csv of every line
    data_json,      \* src/data/<line>_data.json of every line
    exchange_rate_json, \* src/data/exchange_rate.json
    current_rate,   \* get_exchange_rates: what fetch_exchange_rate returned last
    exchange_rates, \* what get_exchange_rates returned last
    fetched_rates,  \* what the latest call whose fetch succeeded returned
    index_json,     \* the datasets of src/data/index.json
    exit_status     \* the exit status of convert_to_json's main

scrape_vars == <<product_type, pc, model_order, page, site, all_products, merged_df, output_df, requests>>
cons_vars == <<ctype, cpc, cmerged, csv_rows, consolidated, reconsolidated>>
call_vars == <<fname, farg, fres>>
pipe_vars == <<pline, ppc, run, merged_csv, consolidated_csv, data_json, exchange_rate_json,
               current_rate, exchange_rates, fetched_rates, index_json, exit_status>>
vars == <<scrape_vars, cons_vars, call_vars, pipe_vars>>

(***************************************************************************)
(* Bounds of the model.                                                    *)
(***************************************************************************)
MaxRecords == 3     \* raw records collected in one scraper run
MaxRows == 2        \* rows of a merged table handed to the consolidator
MaxCalls == 2       \* calls of a function made with one argument
MaxCsvRows == 2     \* rows of a CSV file given to csv_to_json
MaxProducts == 2    \* products, and spec variants, of a Mac page
MaxPhrases == 2     \* phrases of a configuration text
MaxRuns == 2        \* runs of the pipeline: scrape, consolidate, convert
MaxResults == 2     \* results logged in one run of the data validator

(***************************************************************************)
(* Configuration: REGIONS, REFERENCE_REGION.                               *)
(***************************************************************************)
REGIONS == << [code |-> "", display |-> "US"], [code |-> "tw", display |-> "TW"] >>

REFERENCE_REGION == REGIONS[1].code

Displays == { REGIONS[i].display : i \in 1..Len(REGIONS) }

ref_display == REGIONS[CHOOSE i \in 1..Len(REGIONS) : REGIONS[i].code = REFERENCE_REGION].display

ProductLines == {"iphone", "ipad", "mac", "watch", "airpods"}

\* iPhone and Watch join on Standardized_Name, the others on SKU.
NameKeyed(line) == line \in {"iphone", "watch"}

(***************************************************************************)
(* Cell values.  A missing number (None, NaN) and a missing string are     *)
(* values of their own: no price is negative and no word or SKU is "NaN".  *)
(***************************************************************************)
NoPrice == -1
NaN == "NaN"
NoColumn == "NoColumn"      \* the cell of a column this product line's table lacks
NaNName == <<"NaN">>
EmptyName == <<>>

(***************************************************************************)
(* The storefront: what a product page can list.  A listed product is a    *)
(* join key and one of three variants of price and name; for iPhone and    *)
(* Watch the key is the Standardized_Name computed from the name, so a     *)
(* name belongs to one key only.                                           *)
(***************************************************************************)
KeyOrder == <<"A", "B", "C", "D", "E">>     \* the join keys, in ascending string order

Keys == {"A", "B"}      \* the keys a storefront page lists

Variants == {1, 2, 3}

VariantPrice(v) == CASE v = 1 -> NoPrice [] v = 2 -> 5 [] OTHER -> 7

VariantName(k, v) == IF v = 3 THEN <<"Model", k, "New">> ELSE <<"Model", k>>

VariantSku(k, v) == CASE v = 1 -> "SKU1" [] v = 2 -> "SKU2" [] OTHER -> "SKU3"

VariantChip(v) == IF v = 3 THEN "M4" ELSE "M3"

Listings == [key : Keys, variant : Variants]

ModelList == <<"model-a", "model-b">>   \* the models, in the order of a list

Models == { ModelList[i] : i \in 1..Len(ModelList) }

RegionCodes == { REGIONS[i].code : i \in 1..Len(REGIONS) }

NumPages == Len(ModelList) * Len(REGIONS)

SeqsUpTo(S, n) == UNION { [1..m -> S] : m \in 0..n }

RECURSIVE Concat(_)
Concat(ss) == IF ss = <<>> THEN <<>> ELSE Head(ss) \o Concat(Tail(ss))

(***************************************************************************)
(* extract_product_details: one raw record per listed product.             *)
(***************************************************************************)
RawRecord(line, region_code, l) ==
    [ SKU               |-> IF NameKeyed(line) THEN VariantSku(l.key, l.variant) ELSE l.key,
      Name              |-> VariantName(l.key, l.variant),
      Price             |-> VariantPrice(l.variant),
      Region_Code       |-> region_code,
      Standardized_Name |-> IF NameKeyed(line) THEN l.key ELSE NoColumn,
      Chip              |-> IF line = "mac" THEN VariantChip(l.variant) ELSE NoColumn,
      Memory            |-> IF line = "mac" THEN "8GB" ELSE NoColumn,
      Storage           |-> IF line = "mac" THEN "256GB" ELSE NoColumn ]

extract_product_details(line, region_code, listing) ==
    [ i \in 1..Len(listing) |-> RawRecord(line, region_code, listing[i]) ]

(***************************************************************************)
(* merge_product_data.                                                     *)
(***************************************************************************)
JoinKey(line, r) == IF NameKeyed(line) THEN r.Standardized_Name ELSE r.SKU

\* df[df['Region_Code'] == region_code]
SelectRegion(df, region_code) == SelectSeq(df, LAMBDA r : r.Region_Code = region_code)

\* A variant of drop_duplicates that keeps the last record of a key.
RECURSIVE drop_duplicates_keep_last(_, _)
drop_duplicates_keep_last(df, line) ==
    IF df = <<>> THEN <<>>
    ELSE IF \E i \in 2..Len(df) : JoinKey(line, df[i]) = JoinKey(line, Head(df))
         THEN drop_duplicates_keep_last(Tail(df), line)
         ELSE <<Head(df)>> \o drop_duplicates_keep_last(Tail(df), line)

\* A variant of drop_duplicates that drops nothing.
drop_duplicates_none(df, line) == df

\* region_data.drop_duplicates(subset=<join key>): the first record of a key stays.
RECURSIVE drop_duplicates(_, _)
drop_duplicates(df, line) ==
    IF df = <<>> THEN <<>>
    ELSE LET init == drop_duplicates(SubSeq(df, 1, Len(df) - 1), line)
             last == df[Len(df)]
         IN  IF \E i \in 1..(Len(df) - 1) : JoinKey(line, df[i]) = JoinKey(line, last)
             THEN init
             ELSE Append(init, last)

region_data(df, region_code, line) == drop_duplicates(SelectRegion(df, region_code), line)

\* A row of merged_df.  Name is the column Name_<reference region>; SKU_ holds
\* the columns SKU_<region> of the name-keyed scrapers.
LeftRow(line, r) ==
    [ Key     |-> JoinKey(line, r),
      SKU_    |-> [ d \in Displays |->
                      IF ~NameKeyed(line) THEN NoColumn
                      ELSE IF d = ref_display THEN r.SKU ELSE NaN ],
      Price   |-> [ d \in Displays |-> IF d = ref_display THEN r.Price ELSE NoPrice ],
      Name    |-> r.Name,
      Chip    |-> r.Chip,
      Memory  |-> r.Memory,
      Storage |-> r.Storage ]

\* The left cells of a row that only the right frame of an outer merge has.
MissingLeft(line, k) ==
    [ Key     |-> k,
      SKU_    |-> [ d \in Displays |-> IF NameKeyed(line) THEN NaN ELSE NoColumn ],
      Price   |-> [ d \in Displays |-> NoPrice ],
      Name    |-> NaNName,
      Chip    |-> IF line = "mac" THEN NaN ELSE NoColumn,
      Memory  |-> IF line = "mac" THEN NaN ELSE NoColumn,
      Storage |-> IF line = "mac" THEN NaN ELSE NoColumn ]

SortByKey(rows) ==
    Concat([ i \in 1..Len(KeyOrder) |-> SelectSeq(rows, LAMBDA r : r.Key = KeyOrder[i]) ])

\* pd.merge(left, right[columns_to_merge], on=<join key>, how='outer')
pd_merge(left, right, d, line) ==
    LET withRight(l, r) ==
            [ l EXCEPT !.Price[d] = r.Price,
                       !.SKU_[d] = IF NameKeyed(line) THEN r.SKU ELSE @ ]
        matches(l) == SelectSeq(right, LAMBDA r : JoinKey(line, r) = l.Key)
        leftPart == Concat([ i \in 1..Len(left) |->
                        IF matches(left[i]) = <<>> THEN << left[i] >>
                        ELSE [ j \in 1..Len(matches(left[i])) |->
                                 withRight(left[i], matches(left[i])[j]) ] ])
        rightOnly == SelectSeq(right, LAMBDA r :
                        \A i \in 1..Len(left) : left[i].Key # JoinKey(line, r))
        rightPart == [ j \in 1..Len(rightOnly) |->
                         withRight(MissingLeft(line, JoinKey(line, rightOnly[j])), rightOnly[j]) ]
    IN  SortByKey(leftPart \o rightPart)

\* The loop "for region_code, region_df in region_dfs.items()".
RECURSIVE merge_regions(_, _, _, _)
merge_regions(acc, df, i, line) ==
    IF i > Len(REGIONS) THEN acc
    ELSE IF REGIONS[i].code = REFERENCE_REGION THEN merge_regions(acc, df, i + 1, line)
    ELSE merge_regions(
             pd_merge(acc, region_data(df, REGIONS[i].code, line), REGIONS[i].display, line),
             df, i + 1, line)

\* A fill loop that leaves the prices alone.
fill_missing_no_price(row, line) ==
    IF NameKeyed(line)
    THEN [ row EXCEPT !.SKU_ = [ d \in Displays |-> IF row.SKU_[d] = NaN THEN "" ELSE row.SKU_[d] ] ]
    ELSE [ row EXCEPT !.Name = IF row.Name = NaNName THEN EmptyName ELSE row.Name ]

\* The fillna loop: prices to 0 everywhere; Name_<region> to '' in ipad, mac and
\* airpods, SKU_<region> to '' in iphone and watch.
fill_missing(row, line) ==
    IF NameKeyed(line)
    THEN [ row EXCEPT
             !.Price = [ d \in Displays |-> IF row.Price[d] = NoPrice THEN 0 ELSE row.Price[d] ],
             !.SKU_  = [ d \in Displays |-> IF row.SKU_[d] = NaN THEN "" ELSE row.SKU_[d] ] ]
    ELSE [ row EXCEPT
             !.Price = [ d \in Displays |-> IF row.Price[d] = NoPrice THEN 0 ELSE row.Price[d] ],
             !.Name  = IF row.Name = NaNName THEN EmptyName ELSE row.Name ]

\* merged_df after the merge loop and the fillna loop.
merge_frame(product_data, line) ==
    IF product_data = <<>> THEN <<>>
    ELSE LET ref == region_data(product_data, REFERENCE_REGION, line)
             base == [ i \in 1..Len(ref) |-> LeftRow(line, ref[i]) ]
             merged == merge_regions(base, product_data, 1, line)
         IN  [ i \in 1..Len(merged) |-> fill_missing(merged[i], line) ]

\* output_df = merged_df[output_columns] with Name_<reference> renamed.
OutputRow(line, row) ==
    [ SKU          |-> IF NameKeyed(line) THEN NoColumn ELSE row.Key,
      SKU_         |-> row.SKU_,
      Price        |-> row.Price,
      PRODUCT_NAME |-> row.Name,
      Chip         |-> row.Chip,
      Memory       |-> row.Memory,
      Storage      |-> row.Storage ]

merge_product_data(product_data, line) ==
    LET m == merge_frame(product_data, line)
    IN  [ i \in 1..Len(m) |-> OutputRow(line, m[i]) ]

(***************************************************************************)
(* The scraper run: main() of iphone.py, ipad.py, mac.py, watch.py and     *)
(* airpods.py.  get_all_products walks the models in the iteration order   *)
(* of a set (a fixed list in airpods.py) and, per model, the regions in    *)
(* the order of REGIONS.                                                   *)
(***************************************************************************)
ModelOrders(line) ==
    IF line = "airpods" THEN { ModelList }
    ELSE { o \in [1..Len(ModelList) -> Models] :
             \A i, j \in 1..Len(ModelList) : i # j => o[i] # o[j] }

PageModel(order, p) == order[((p - 1) \div Len(REGIONS)) + 1]

PageRegion(p) == REGIONS[((p - 1) % Len(REGIONS)) + 1].code

NoSite == [ m \in Models, c \in RegionCodes |-> <<>> ]

\* The product lines of smart_consolidate_colors.main() and of
\* convert_to_json.main(), in the order both walk them.
DataLines == <<"iphone", "ipad", "mac", "watch", "airpods", "tvhome">>

LineNames == { DataLines[i] : i \in 1..Len(DataLines) }

\* A CSV file that does not exist; one that does holds the table of a run.
NoCsv == [state |-> "absent", run |-> 0]

\* exchange_rate.json does not exist.
NoRateFile == [state |-> "absent", TWD |-> 0, lastUpdated |-> 0, source |-> ""]

\* <line>_data.json does not exist; one that does was written in a run, from
\* the table of a run read from the merged or the consolidated file.
NoJson == [state |-> "absent", table |-> 0, from |-> "", written |-> 0, TWD |-> 0]

\* get_exchange_rates has not been called.
NoRates == [TWD |-> 0, lastUpdated |-> 0, source |-> ""]

PipeIdle ==
    /\ pline = "none"
    /\ ppc = "idle"
    /\ run = 0
    /\ merged_csv = [ l \in LineNames |-> NoCsv ]
    /\ consolidated_csv = [ l \in LineNames |-> NoCsv ]
    /\ data_json = [ l \in LineNames |-> NoJson ]
    /\ exchange_rate_json = NoRateFile
    /\ current_rate = <<>>
    /\ exchange_rates = NoRates
    /\ fetched_rates = NoRates
    /\ index_json = <<>>
    /\ exit_status = 0

CallIdle ==
    /\ fname = "none"
    /\ farg = <<>>
    /\ fres = <<>>

ConsIdle ==
    /\ ctype = "none"
    /\ cpc = "idle"
    /\ cmerged = <<>>
    /\ csv_rows = <<>>
    /\ consolidated = <<>>
    /\ reconsolidated = <<>>

Init ==
    /\ product_type \in ProductLines
    /\ pc = "start"
    /\ model_order = <<>>
    /\ page = 1
    /\ site = NoSite
    /\ all_products = <<>>
    /\ merged_df = <<>>
    /\ output_df = <<>>
    /\ requests = <<>>
    /\ ConsIdle
    /\ CallIdle
    /\ PipeIdle

\* The listing pages get_all_products asks for before the product pages:
\* get_available_models(region_code) for every region (iphone.py, ipad.py,
\* watch.py), for the US alone (mac.py), not at all (airpods.py).  It calls
\* requests.get without time.sleep(REQUEST_DELAY).
listing_requests(line) ==
    LET listing(i) == [kind |-> "listing", model |-> "", region |-> REGIONS[i].code, delayed |-> FALSE]
    IN  CASE line = "airpods" -> <<>>
          [] line = "mac"     -> << listing(1) >>
          [] OTHER            -> [ i \in 1..Len(REGIONS) |-> listing(i) ]

\* extract_product_details: time.sleep(REQUEST_DELAY), then requests.get(url).
product_request(order, p) ==
    [kind |-> "product", model |-> PageModel(order, p), region |-> PageRegion(p), delayed |-> TRUE]

\* get_all_products, first loop: the models are collected; the second loop
\* will iterate over them in some order.
GetAvailableModels ==
    /\ pc = "start"
    /\ model_order' \in ModelOrders(product_type)
    /\ pc' = "fetch"
    /\ requests' = listing_requests(product_type)
    /\ UNCHANGED <<product_type, page, site, all_products, merged_df, output_df>>
    /\ UNCHANGED cons_vars
    /\ UNCHANGED call_vars
    /\ UNCHANGED pipe_vars

\* What fetching one page can end in: the products are read, the status is
\* not 200, the metrics script tag is missing, its JSON is malformed, or
\* requests.get raises (connection error, timeout).
FetchOutcomes == {"ok", "status", "no_script", "bad_json", "network"}

\* extract_product_details raises: requests.get stands outside the try block
\* in iphone.py, ipad.py and mac.py, inside it in watch.py and airpods.py.
fetch_raises(line, outcome) ==
    outcome = "network" /\ line \in {"iphone", "ipad", "mac"}

\* get_all_products, second loop: one (model, region) page is fetched and its
\* records are appended.  A failure that extract_product_details handles
\* gives the empty list; an exception it does not catch leaves
\* get_all_products and main, which catch nothing.
ExtractProductDetails ==
    /\ pc = "fetch"
    /\ page <= NumPages
    /\ \E outcome \in FetchOutcomes :
         IF fetch_raises(product_type, outcome)
         THEN /\ pc' = "aborted"
              /\ UNCHANGED <<page, site, all_products>>
         ELSE /\ \E listing \in SeqsUpTo(Listings, MaxRecords - Len(all_products)) :
                   /\ outcome # "ok" => listing = <<>>
                   /\ site' = [ site EXCEPT ![PageModel(model_order, page), PageRegion(page)] = listing ]
                   /\ all_products' = all_products \o
                          extract_product_details(product_type, PageRegion(page), listing)
              /\ page' = page + 1
              /\ pc' = pc
    /\ requests' = Append(requests, product_request(model_order, page))
    /\ UNCHANGED <<product_type, model_order, merged_df, output_df>>
    /\ UNCHANGED cons_vars
    /\ UNCHANGED call_vars
    /\ UNCHANGED pipe_vars

\* merged_data = merge_product_data(all_products)
MergeProductData ==
    /\ pc = "fetch"
    /\ page > NumPages
    /\ merged_df' = merge_frame(all_products, product_type)
    /\ output_df' = merge_product_data(all_products, product_type)
    /\ pc' = "done"
    /\ UNCHANGED <<product_type, model_order, page, site, all_products, requests>>
    /\ UNCHANGED cons_vars
    /\ UNCHANGED call_vars
    /\ UNCHANGED pipe_vars

Next == GetAvailableModels \/ ExtractProductDetails \/ MergeProductData

Spec == Init /\ [][Next]_vars

\* The records of the same run had the models been walked in list order.
ListOrderProducts ==
    Concat([ p \in 1..NumPages |->
        extract_product_details(product_type, PageRegion(p),
                                site[PageModel(ModelList, p), PageRegion(p)]) ])

(***************************************************************************)
(* Claims about merge_product_data, checked under Spec.                    *)
(***************************************************************************)
\* The positions in all_products of the records of key k in region code.
RecordsAt(code, k) ==
    { i \in 1..Len(all_products) :
        /\ all_products[i].Region_Code = code
        /\ JoinKey(product_type, all_products[i]) = k }

FirstRecord(code, k) ==
    all_products[CHOOSE i \in RecordsAt(code, k) : \A j \in RecordsAt(code, k) : i <= j]

KeysSeen == { JoinKey(product_type, all_products[i]) : i \in 1..Len(all_products) }

RowsOfKey(k) == { i \in 1..Len(merged_df) : merged_df[i].Key = k }

\* C1: the merged table has exactly one row per distinct join key that occurs
\* in any region's records: no key is dropped, no key has two rows, and the
\* returned table has the rows of the merged frame.
C1_OneRowPerKey ==
    pc = "done" =>
        /\ \A k \in KeysSeen : Cardinality(RowsOfKey(k)) = 1
        /\ \A i \in 1..Len(merged_df) : merged_df[i].Key \in KeysSeen
        /\ Len(output_df) = Len(merged_df)

\* A run where one key is listed twice in the reference region only and
\* another key in the other region only.
C1_Witness ==
    /\ pc = "done"
    /\ \E k1, k2 \in Keys :
         /\ k1 # k2
         /\ Cardinality(RecordsAt(REFERENCE_REGION, k1)) = 2
         /\ RecordsAt("tw", k1) = {}
         /\ RecordsAt(REFERENCE_REGION, k2) = {}
         /\ RecordsAt("tw", k2) # {}
         /\ Len(output_df) = 2

\* C2: in every returned row every region's price is a number >= 0, and it is
\* 0 when the key has no record in that region or the record kept for it has
\* no price.
C2_PricesFilled ==
    pc = "done" =>
        \A i \in 1..Len(output_df) : \A r \in 1..Len(REGIONS) :
            LET d == REGIONS[r].display
                recs == RecordsAt(REGIONS[r].code, merged_df[i].Key)
            IN  /\ output_df[i].Price[d] \in Nat
                /\ (recs = {} \/ FirstRecord(REGIONS[r].code, merged_df[i].Key).Price = NoPrice)
                      => output_df[i].Price[d] = 0

\* A run with a row whose key is absent from one region and a row whose kept
\* record has no price.
C2_Witness ==
    /\ pc = "done"
    /\ \E i \in 1..Len(merged_df) : \E r \in 1..Len(REGIONS) :
         RecordsAt(REGIONS[r].code, merged_df[i].Key) = {}
    /\ \E i \in 1..Len(merged_df) : \E r \in 1..Len(REGIONS) :
         /\ RecordsAt(REGIONS[r].code, merged_df[i].Key) # {}
         /\ FirstRecord(REGIONS[r].code, merged_df[i].Key).Price = NoPrice
         /\ output_df[i].Price[REGIONS[r].display] = 0

\* C3: when a region lists a join key several times, the merged row carries
\* the first record's price for that region (0 if it has none), its SKU in the
\* name-keyed scrapers, and, for the reference region, its name.
C3_FirstOccurrenceWins ==
    pc = "done" =>
        \A r \in 1..Len(REGIONS) : \A k \in Keys :
            RecordsAt(REGIONS[r].code, k) # {} =>
                \E i \in 1..Len(merged_df) :
                    LET first == FirstRecord(REGIONS[r].code, k)
                        d == REGIONS[r].display
                    IN  /\ merged_df[i].Key = k
                        /\ output_df[i].Price[d] = (IF first.Price = NoPrice THEN 0 ELSE first.Price)
                        /\ NameKeyed(product_type) => output_df[i].SKU_[d] = first.SKU
                        /\ ~NameKeyed(product_type) => output_df[i].SKU = first.SKU
                        /\ REGIONS[r].code = REFERENCE_REGION => output_df[i].PRODUCT_NAME = first.Name

\* A run where the reference region lists one key twice with different
\* prices and names.
C3_Witness ==
    /\ pc = "done"
    /\ \E k \in Keys : \E i, j \in RecordsAt(REFERENCE_REGION, k) :
         /\ i < j
         /\ all_products[i].Price # all_products[j].Price
         /\ all_products[i].Name # all_products[j].Name
         /\ all_products[i].Price # NoPrice
         /\ all_products[j].Price # NoPrice

\* C4: in every returned row of every scraper a missing name is the empty
\* string: PRODUCT_NAME is never NaN, and it is "" for a key that has no
\* record in the reference region.
C4_MissingNameIsEmpty ==
    pc = "done" =>
        \A i \in 1..Len(output_df) :
            /\ output_df[i].PRODUCT_NAME # NaNName
            /\ RecordsAt(REFERENCE_REGION, merged_df[i].Key) = {}
                  => output_df[i].PRODUCT_NAME = EmptyName

RowSet(df) == { df[i] : i \in 1..Len(df) }

\* C5: the rows of the merge are those of the same pages walked in list
\* order: the iteration order of the set of models does not show in them.
C5_OrderIndependent ==
    pc = "done" =>
        RowSet(output_df) = RowSet(merge_product_data(ListOrderProducts, product_type))

(***************************************************************************)
(* Words of product names.  A name is the sequence of its whitespace-      *)
(* separated words; the tables below give, for the words the model's       *)
(* names are made of, what the string functions of the code compute.       *)
(***************************************************************************)
\* str.lower()
Lower(w) ==
    CASE w = "iPhone" -> "iphone"     [] w = "iPad" -> "ipad"
      [] w = "128GB" -> "128gb"       [] w = "256GB" -> "256gb"
      [] w = "Black" -> "black"       [] w = "White" -> "white"
      [] w = "Blue" -> "blue"         [] w = "Silver" -> "silver"
      [] w = "Gray" -> "gray"         [] w = "Space" -> "space"
      [] w = "Natural" -> "natural"   [] w = "Midnight" -> "midnight"
      [] w = "Titanium" -> "titanium" [] w = "Aluminum" -> "aluminum"
      [] w = "Pro" -> "pro"           [] w = "Mac" -> "mac"
      [] w = "Apple" -> "apple"       [] w = "Watch" -> "watch"
      [] w = "SE," -> "se,"           [] w = "GPS," -> "gps,"
      [] w = "AirPods" -> "airpods"   [] w = "Max" -> "max"
      [] w = "HomePod" -> "homepod"
      [] w = "SE" -> "se"             [] w = "GPS" -> "gps"
      [] OTHER -> w     \* "16", "-", "mini", "11-inch", "40mm,", "44mm,", "40mm", "44mm"

\* len(word)
WordLen(w) ==
    CASE w \in {"-"} -> 1
      [] w \in {"16"} -> 2
      [] w \in {"Pro", "Mac", "Max", "SE,"} -> 3
      [] w \in {"iPad", "Blue", "Gray", "mini", "GPS,"} -> 4
      [] w \in {"128GB", "256GB", "Black", "White", "Space", "Apple", "Watch", "40mm,", "44mm,"} -> 5
      [] w \in {"iPhone", "Silver"} -> 6
      [] w \in {"11-inch", "Natural", "AirPods", "HomePod"} -> 7
      [] OTHER -> 8     \* "Titanium", "Aluminum", "Midnight"

\* re.findall(r'\b[a-zA-Z]+\b', word), lower-cased: digits glued to letters
\* leave no word boundary, so "128GB" and "40mm," hold no match.
AlphaWords(w) ==
    CASE w \in {"16", "128GB", "256GB", "-", "40mm,", "44mm,"} -> <<>>
      [] w = "11-inch" -> <<"inch">>
      [] w = "SE," -> <<"se">>
      [] w = "GPS," -> <<"gps">>
      [] OTHER -> << Lower(w) >>

\* word.strip('(),')
StripPunct(w) ==
    CASE w = "SE," -> "SE" [] w = "GPS," -> "GPS"
      [] w = "40mm," -> "40mm" [] w = "44mm," -> "44mm"
      [] OTHER -> w

EndsWithComma(w) == w \in {"SE,", "GPS,", "40mm,", "44mm,"}

\* str.title() of a lower-cased colour or word
Title(c) ==
    CASE c = "space gray" -> "Space Gray"
      [] c = "black" -> "Black"       [] c = "white" -> "White"
      [] c = "blue" -> "Blue"         [] c = "silver" -> "Silver"
      [] c = "gray" -> "Gray"         [] c = "space" -> "Space"
      [] c = "natural" -> "Natural"   [] c = "midnight" -> "Midnight"
      [] c = "titanium" -> "Titanium" [] c = "aluminum" -> "Aluminum"
      [] c = "pro" -> "Pro"           [] c = "mac" -> "Mac"
      [] c = "mini" -> "Mini"         [] c = "apple" -> "Apple"
      [] c = "watch" -> "Watch"       [] c = "se" -> "Se"
      [] c = "airpods" -> "Airpods"   [] c = "max" -> "Max"
      [] c = "homepod" -> "Homepod"   [] c = "iphone" -> "Iphone"
      [] c = "ipad" -> "Ipad"
      [] OTHER -> c

\* The labels Title can give, in the order sorted() puts strings.
LabelOrder ==
    << "Airpods", "Aluminum", "Apple", "Black", "Blue", "Gray", "Homepod", "Ipad",
       "Iphone", "Mac", "Max", "Midnight", "Mini", "Natural", "Pro", "Se", "Silver",
       "Space", "Space Gray", "Titanium", "Watch", "White" >>

\* sorted(labels)
Sorted(labels) == SelectSeq(LabelOrder, LAMBDA l : l \in labels)

\* SmartColorConsolidator.common_colors
SingleColors ==
    { "black", "blue", "green", "pink", "yellow", "red", "white", "purple", "orange",
      "gray", "grey", "silver", "gold", "brown", "cyan", "magenta",
      "midnight", "starlight", "graphite",
      "natural", "slate", "ultra", "ceramic", "edition" }

MultiColors ==
    { <<"space", "gray">>, <<"space", "grey">>, <<"rose", "gold">>, <<"deep", "purple">>,
      <<"alpine", "green">>, <<"sierra", "blue">>, <<"jet", "black">>, <<"product", "red">> }

\* The name of a two-word colour as one string.
MultiColorName(c) ==
    CASE c = <<"space", "gray">> -> "space gray"   [] c = <<"space", "grey">> -> "space grey"
      [] c = <<"rose", "gold">> -> "rose gold"     [] c = <<"deep", "purple">> -> "deep purple"
      [] c = <<"alpine", "green">> -> "alpine green" [] c = <<"sierra", "blue">> -> "sierra blue"
      [] c = <<"jet", "black">> -> "jet black"     [] OTHER -> "product red"

\* ' - ' in name: a dash standing alone between two words.
DashAt(name) == { i \in 2..(Len(name) - 1) : name[i] = "-" }

HasDash(name) == DashAt(name) # {}

\* name.split(' - ')[0]
BeforeDash(name) ==
    SubSeq(name, 1, (CHOOSE i \in DashAt(name) : \A j \in DashAt(name) : i <= j) - 1)

(***************************************************************************)
(* SmartColorConsolidator.                                                 *)
(***************************************************************************)
\* The product types main() passes, lower-cased as create_grouping_key does.
ConsTypes == {"iphone", "ipad", "mac", "watch", "airpods", "tv/home"}

\* extract_color_from_name of a string: the known colours the lower-cased
\* name contains, and the last two alphabetic words unless they are units.
extract_color_from_name(name) ==
    LET known == { Lower(name[i]) : i \in { j \in 1..Len(name) : Lower(name[j]) \in SingleColors } }
        multi == { MultiColorName(c) : c \in { m \in MultiColors :
                      \E i \in 1..(Len(name) - 1) :
                          Lower(name[i]) = m[1] /\ Lower(name[i + 1]) = m[2] } }
        words == Concat([ i \in 1..Len(name) |-> AlphaWords(name[i]) ])
        lastTwo == IF Len(words) >= 2
                   THEN { words[Len(words) - 1], words[Len(words)] }
                   ELSE {}
    IN  known \cup multi \cup
        (lastTwo \ {"gb", "tb", "inch", "wifi", "cellular", "gps", "mm"})

\* The trailing-word rule of the iPhone key: the last word goes if it is a
\* known colour or shorter than 8 characters.
iphone_base_name(name) ==
    IF Len(name) > 1
    THEN IF Lower(name[Len(name)]) \in SingleColors \/ WordLen(name[Len(name)]) < 8
         THEN SubSeq(name, 1, Len(name) - 1)
         ELSE name
    ELSE name

\* An iPad key that treats the last word as the iPhone key does.
ipad_base_name_as_iphone(name) ==
    IF HasDash(name) THEN BeforeDash(name) ELSE iphone_base_name(name)

\* The iPad key: the part before ' - ', else the last word goes if it is a
\* known colour.
ipad_base_name(name) ==
    IF HasDash(name) THEN BeforeDash(name)
    ELSE IF Len(name) > 1 /\ Lower(name[Len(name)]) \in SingleColors
         THEN SubSeq(name, 1, Len(name) - 1)
         ELSE name

\* name.split(','): the positions of the words that end a segment.
SegmentEnds(name) == { i \in 1..Len(name) : EndsWithComma(name[i]) }

\* The Watch key name: ', '.join of the first two comma-separated segments
\* and of the first later segment that names a connectivity.
watch_base_name(name) ==
    LET ends == SegmentEnds(name)
        nth(n) == CHOOSE i \in ends : Cardinality({ j \in ends : j <= i }) = n
        nparts == Cardinality(ends) + 1
        segStart(n) == IF n = 1 THEN 1 ELSE nth(n - 1) + 1
        segEnd(n) == IF n <= Cardinality(ends) THEN nth(n) ELSE Len(name)
        \* one part of name.split(','): its words, without the comma
        part(n) == [ i \in 1..(segEnd(n) - segStart(n) + 1) |->
                       IF segStart(n) + i - 1 = segEnd(n) /\ n <= Cardinality(ends)
                       THEN StripPunct(name[segEnd(n)])
                       ELSE name[segStart(n) + i - 1] ]
        isConn(n) == \E i \in 1..Len(part(n)) :
                        Lower(part(n)[i]) \in {"gps", "cellular", "wifi"}
        conns == { n \in 3..nparts : isConn(n) }
        conn == CHOOSE n \in conns : \A m \in conns : n <= m
    IN  IF (\E i \in 1..Len(name) : name[i] = "Watch") /\ nparts >= 2
        THEN part(1) \o <<",">> \o part(2)
             \o (IF conns = {} THEN <<>> ELSE <<",">> \o part(conn))
        ELSE name

\* The AirPods key name: every known colour removed as a whole word, spaces
\* collapsed, a trailing dash removed (the AirPods names of the catalogue hold
\* one-word colours only).
airpods_base_name(name) ==
    LET kept == SelectSeq(name, LAMBDA w : Lower(w) \notin SingleColors)
    IN  IF kept # <<>> /\ kept[Len(kept)] = "-" THEN SubSeq(kept, 1, Len(kept) - 1) ELSE kept

\* f"{value}" of a cell: a missing value prints as nan.
Fmt(v) == IF v \in {NaN, NoColumn} THEN "nan" ELSE v

\* create_grouping_key.  The key string is name, "_" and price (Watch, AirPods,
\* fallback), "mac_" and price, chip, memory, storage joined by "_" (Mac), or
\* the base name alone (iPhone, iPad); its parts are kept apart here, which
\* loses nothing: no price, chip, memory or storage holds an underscore.
create_grouping_key(row, t) ==
    CASE t = "iphone" -> [ name |-> iphone_base_name(row.PRODUCT_NAME), price |-> NoPrice, spec |-> <<>> ]
      [] t = "ipad"   -> [ name |-> ipad_base_name(row.PRODUCT_NAME), price |-> NoPrice, spec |-> <<>> ]
      [] t = "mac"    -> [ name |-> <<"mac">>, price |-> row.Price["US"],
                           spec |-> << Fmt(row.Chip), Fmt(row.Memory), Fmt(row.Storage) >> ]
      [] t = "watch"  -> [ name |-> watch_base_name(row.PRODUCT_NAME), price |-> row.Price["US"], spec |-> <<>> ]
      [] t = "airpods" -> [ name |-> airpods_base_name(row.PRODUCT_NAME), price |-> row.Price["US"], spec |-> <<>> ]
      [] OTHER        -> [ name |-> row.PRODUCT_NAME, price |-> row.Price["US"], spec |-> <<>> ]

\* create_grouping_key raises on a name that is NaN (a float) where it calls
\* a string method on it: name.split(), ' - ' in name, 'Watch' in name, re.sub.
key_raises(row, t) ==
    /\ row.PRODUCT_NAME = NaNName
    /\ t \in {"iphone", "ipad", "watch", "airpods"}

\* collect_sku_variants: the SKUs of the items, per region.
collect_sku_variants(items, t) ==
    LET has(v) == v \notin {NaN, NoColumn}
        us == IF t \in {"iphone", "watch"}
              THEN SelectSeq([ i \in 1..Len(items) |-> items[i].SKU_["US"] ], has)
              ELSE SelectSeq([ i \in 1..Len(items) |-> items[i].SKU ], has)
        tw == IF t \in {"iphone", "watch"}
              THEN SelectSeq([ i \in 1..Len(items) |-> items[i].SKU_["TW"] ], has)
              ELSE <<>>
    IN  [ US |-> us, TW |-> tw ]

\* result.update(sku_variants): only the non-empty lists are keys of the dict.
update_sku_variants(row, items, t) ==
    LET v == collect_sku_variants(items, t)
    IN  [ row EXCEPT !.SKU_Variants =
            [ d \in Displays |-> IF v[d] # <<>> THEN v[d] ELSE row.SKU_Variants[d] ] ]

\* create_clean_product_name
create_clean_product_name(original_name, t) ==
    IF t = "ipad" /\ HasDash(original_name) THEN BeforeDash(original_name)
    ELSE LET n == Len(original_name)
             keep == { i \in 1..n :
                         ~(Lower(StripPunct(original_name[i])) \in SingleColors /\ i >= n - 1) }
             clean == Concat([ i \in 1..n |-> IF i \in keep THEN << original_name[i] >> ELSE <<>> ])
             trimmed == IF clean # <<>> /\ EndsWithComma(clean[Len(clean)])
                        THEN [ clean EXCEPT ![Len(clean)] = StripPunct(@) ]
                        ELSE clean
         IN  IF trimmed # <<>> THEN trimmed ELSE original_name

\* A single-item branch that also cleans the name, as consolidate_group does.
single_item_clean_name(row, t) ==
    update_sku_variants(
        [ row EXCEPT !.Available_Colors = <<"Single Option">>, !.Color_Variants = 1,
                     !.PRODUCT_NAME = create_clean_product_name(row.PRODUCT_NAME, t) ],
        << row >>, t)

\* The single-item branch of consolidate_products.
single_item(row, t) ==
    update_sku_variants(
        [ row EXCEPT !.Available_Colors = <<"Single Option">>, !.Color_Variants = 1 ],
        << row >>, t)

\* consolidate_group
consolidate_group(items, t) ==
    LET colors == UNION { extract_color_from_name(items[i].PRODUCT_NAME) : i \in 1..Len(items) }
        unique_colors == { Title(c) : c \in colors }
        available == IF Cardinality(unique_colors) >= 1 THEN Sorted(unique_colors)
                     ELSE <<"Multiple Colors">>
    IN  update_sku_variants(
            [ items[1] EXCEPT
                !.Available_Colors = available,
                !.Color_Variants = Len(items),
                !.PRODUCT_NAME = create_clean_product_name(items[1].PRODUCT_NAME, t) ],
            items, t)

\* extract_color_from_name and create_clean_product_name raise on a NaN name.
group_raises(items) ==
    /\ Len(items) > 1
    /\ \E i \in 1..Len(items) : items[i].PRODUCT_NAME = NaNName

\* The keys of groups, a dict, in insertion order.
RECURSIVE group_keys(_, _)
group_keys(df, t) ==
    IF df = <<>> THEN <<>>
    ELSE LET init == group_keys(SubSeq(df, 1, Len(df) - 1), t)
             k == create_grouping_key(df[Len(df)], t)
         IN  IF \E i \in 1..Len(init) : init[i] = k THEN init ELSE Append(init, k)

group_items(df, t, k) == SelectSeq(df, LAMBDA row : create_grouping_key(row, t) = k)

consolidate_raises(df, t) ==
    \/ \E i \in 1..Len(df) : key_raises(df[i], t)
    \/ \E i \in 1..Len(df) : group_raises(group_items(df, t, create_grouping_key(df[i], t)))

\* consolidate_products, when it returns.
consolidate_products(df, t) ==
    LET keys == group_keys(df, t)
    IN  [ g \in 1..Len(keys) |->
            LET items == group_items(df, t, keys[g])
            IN  IF Len(items) = 1 THEN single_item(items[1], t)
                ELSE consolidate_group(items, t) ]

(***************************************************************************)
(* The merged tables the consolidator is run on: the scraper's merge of a  *)
(* small catalogue, written with to_csv and read back with pd.read_csv.    *)
(***************************************************************************)
ConsNames(t) ==
    CASE t = "iphone" -> { <<"iPhone", "16", "128GB", "Black">>,
                           <<"iPhone", "16", "128GB", "White">>,
                           <<"iPhone", "16", "Pro", "256GB", "Natural", "Titanium">> }
      [] t = "ipad"   -> { <<"iPad", "Pro", "11-inch", "-", "Space", "Gray">>,
                           <<"iPad", "Pro", "11-inch", "-", "Silver">>,
                           <<"iPad", "Pro", "11-inch">> }
      [] t = "mac"    -> { <<"Mac", "mini">>, <<"Mac", "mini", "Silver">> }
      [] t = "watch"  -> { <<"Apple", "Watch", "SE,", "GPS,", "40mm,", "Silver", "Aluminum">>,
                           <<"Apple", "Watch", "SE,", "GPS,", "44mm,", "Silver", "Aluminum">>,
                           <<"Apple", "Watch", "SE,", "GPS,", "40mm,", "Midnight", "Aluminum">> }
      [] t = "airpods" -> { <<"AirPods", "Max", "-", "Midnight">>,
                            <<"AirPods", "Max", "-", "Blue">>,
                            <<"AirPods", "Pro">> }
      [] OTHER        -> { <<"HomePod", "mini", "-", "Blue">>,
                           <<"HomePod", "mini", "-", "White">>,
                           <<"HomePod", "mini">> }

\* (Price_US, Price_TW) of a catalogue entry.
PricePairs(t) ==
    IF t = "mac" THEN { <<5, 50>>, <<7, 70>> }
    ELSE { <<5, 50>>, <<5, 70>>, <<7, 70>> }

\* (Chip, Memory, Storage) of a Mac; the other scrapers have no such columns.
Configs(t) ==
    IF t = "mac"
    THEN { <<"M3", "8GB", "256GB">>, <<"M4", "8GB", "256GB">>,
           <<"M3", "16GB", "256GB">>, <<"M3", "8GB", "512GB">> }
    ELSE { <<NoColumn, NoColumn, NoColumn>> }

\* A catalogue entry: a product sold in both regions, or in Taiwan only.
ConsEntries(t) ==
    [ name : ConsNames(t), where : {"both"}, price : PricePairs(t), config : Configs(t) ]
    \cup
    { [ name |-> CHOOSE n \in ConsNames(t) : TRUE, where |-> "tw", price |-> <<5, 50>>,
        config |-> CHOOSE c \in Configs(t) : TRUE ] }

UsSku(k) == CASE k = "A" -> "A-US" [] k = "B" -> "B-US" [] k = "C" -> "C-US"
              [] k = "D" -> "D-US" [] OTHER -> "E-US"

TwSku(k) == CASE k = "A" -> "A-TW" [] k = "B" -> "B-TW" [] k = "C" -> "C-TW"
              [] k = "D" -> "D-TW" [] OTHER -> "E-TW"

\* The raw records of the i-th catalogue entry, whose join key is KeyOrder[i].
EntryRecords(t, e, i) ==
    LET k == KeyOrder[i]
        rec(code, sku, price) ==
            [ SKU               |-> IF NameKeyed(t) THEN sku ELSE k,
              Name              |-> e.name,
              Price             |-> price,
              Region_Code       |-> code,
              Standardized_Name |-> IF NameKeyed(t) THEN k ELSE NoColumn,
              Chip              |-> e.config[1],
              Memory            |-> e.config[2],
              Storage           |-> e.config[3] ]
    IN  (IF e.where = "both" THEN << rec("", UsSku(k), e.price[1]) >> ELSE <<>>)
        \o << rec("tw", TwSku(k), e.price[2]) >>

CatalogRecords(t, cat) == Concat([ i \in 1..Len(cat) |-> EntryRecords(t, cat[i], i) ])

\* A row of a DataFrame handed to the consolidator: the merged columns and
\* the columns consolidate_products adds (empty where the column is missing).
ConsRow(row) ==
    [ PRODUCT_NAME     |-> row.PRODUCT_NAME,
      Price            |-> row.Price,
      SKU              |-> row.SKU,
      SKU_             |-> row.SKU_,
      Chip             |-> row.Chip,
      Memory           |-> row.Memory,
      Storage          |-> row.Storage,
      Available_Colors |-> <<>>,
      Color_Variants   |-> 0,
      SKU_Variants     |-> [ d \in Displays |-> <<>> ] ]

\* DataFrame.to_csv: a missing value is written as the empty field.
to_csv(df) ==
    [ i \in 1..Len(df) |->
        [ df[i] EXCEPT
            !.PRODUCT_NAME = IF @ = NaNName THEN EmptyName ELSE @,
            !.SKU     = IF @ = NaN THEN "" ELSE @,
            !.SKU_    = [ d \in Displays |-> IF df[i].SKU_[d] = NaN THEN "" ELSE df[i].SKU_[d] ],
            !.Chip    = IF @ = NaN THEN "" ELSE @,
            !.Memory  = IF @ = NaN THEN "" ELSE @,
            !.Storage = IF @ = NaN THEN "" ELSE @ ] ]

\* pd.read_csv: the empty field is read as NaN.
read_csv(rows) ==
    [ i \in 1..Len(rows) |->
        [ rows[i] EXCEPT
            !.PRODUCT_NAME = IF @ = EmptyName THEN NaNName ELSE @,
            !.SKU     = IF @ = "" THEN NaN ELSE @,
            !.SKU_    = [ d \in Displays |-> IF rows[i].SKU_[d] = "" THEN NaN ELSE rows[i].SKU_[d] ],
            !.Chip    = IF @ = "" THEN NaN ELSE @,
            !.Memory  = IF @ = "" THEN NaN ELSE @,
            !.Storage = IF @ = "" THEN NaN ELSE @ ] ]

ScrapeIdle ==
    /\ product_type = "none"
    /\ pc = "idle"
    /\ model_order = <<>>
    /\ page = 1
    /\ site = NoSite
    /\ all_products = <<>>
    /\ merged_df = <<>>
    /\ output_df = <<>>
    /\ requests = <<>>

\* The names of a name-keyed scraper in the ascending order of their
\* Standardized_Name (iphone16_128gb_black, iphone16_128gb_white,
\* iphone16pro_256gb_naturaltitanium; se_gps_40mm_midnight_aluminum,
\* se_gps_40mm_silver_aluminum, se_gps_44mm_silver_aluminum).
StdNameOrder(t) ==
    IF t = "iphone"
    THEN << <<"iPhone", "16", "128GB", "Black">>,
            <<"iPhone", "16", "128GB", "White">>,
            <<"iPhone", "16", "Pro", "256GB", "Natural", "Titanium">> >>
    ELSE << <<"Apple", "Watch", "SE,", "GPS,", "40mm,", "Midnight", "Aluminum">>,
            <<"Apple", "Watch", "SE,", "GPS,", "40mm,", "Silver", "Aluminum">>,
            <<"Apple", "Watch", "SE,", "GPS,", "44mm,", "Silver", "Aluminum">> >>

StdNameRank(t, name) == CHOOSE i \in 1..Len(StdNameOrder(t)) : StdNameOrder(t)[i] = name

\* The join key of a name-keyed scraper is computed from the name and the
\* merge sorts by it: the US names of a catalogue come in the order of their
\* keys, no two alike.
CatalogOk(t, cat) ==
    NameKeyed(t) =>
        \A i, j \in 1..Len(cat) :
            (i < j /\ cat[i].where = "both" /\ cat[j].where = "both")
                => StdNameRank(t, cat[i].name) < StdNameRank(t, cat[j].name)

\* The merged table of a scraper run, about to be saved; or no scraper run
\* for this product line, and no file.  TV/Home has no scraper here: its
\* table is merged by SKU.
InitConsolidate ==
    /\ ScrapeIdle
    /\ CallIdle
    /\ PipeIdle
    /\ ctype \in ConsTypes
    /\ \/ /\ cpc = "merged"
          /\ \E cat \in SeqsUpTo(ConsEntries(ctype), MaxRows) :
               /\ CatalogOk(ctype, cat)
               /\ cmerged = LET m == merge_product_data(CatalogRecords(ctype, cat), ctype)
                            IN  [ i \in 1..Len(m) |-> ConsRow(m[i]) ]
       \/ /\ cpc = "no file"
          /\ cmerged = <<>>
    /\ csv_rows = <<>>
    /\ consolidated = <<>>
    /\ reconsolidated = <<>>

\* The scraper's main(): merged_data.to_csv(output_file).  The empty table of
\* merge_product_data has no columns: the file written holds an empty line.
SaveMergedCsv ==
    /\ cpc = "merged"
    /\ csv_rows' = to_csv(cmerged)
    /\ cpc' = "csv"
    /\ UNCHANGED <<ctype, cmerged, consolidated, reconsolidated>>
    /\ UNCHANGED scrape_vars
    /\ UNCHANGED call_vars
    /\ UNCHANGED pipe_vars

\* pd.read_csv raises EmptyDataError on a file with no columns to parse.
read_csv_raises(rows) == rows = <<>>

\* process_product_file: a missing file is skipped with a warning; the CSV is
\* read and consolidated, and the result saved.  No exception of pd.read_csv
\* or of consolidate_products is caught, here or in main.  (A table read from
\* a file the scrapers wrote has rows, and so has its consolidation.)
ProcessProductFile ==
    /\ cpc \in {"csv", "no file"}
    /\ IF cpc = "no file"
       THEN /\ cpc' = "skipped"
            /\ UNCHANGED consolidated
       ELSE IF read_csv_raises(csv_rows)
       THEN /\ cpc' = "read failed"
            /\ UNCHANGED consolidated
       ELSE IF consolidate_raises(read_csv(csv_rows), ctype)
       THEN /\ cpc' = "raised"
            /\ UNCHANGED consolidated
       ELSE /\ cpc' = "done"
            /\ consolidated' = consolidate_products(read_csv(csv_rows), ctype)
    /\ UNCHANGED <<ctype, cmerged, csv_rows, reconsolidated>>
    /\ UNCHANGED scrape_vars
    /\ UNCHANGED call_vars
    /\ UNCHANGED pipe_vars

\* consolidate_products called on a table it returned.
ConsolidateAgain ==
    /\ cpc = "done"
    /\ IF consolidate_raises(consolidated, ctype)
       THEN /\ cpc' = "raised again"
            /\ UNCHANGED reconsolidated
       ELSE /\ cpc' = "again"
            /\ reconsolidated' = consolidate_products(consolidated, ctype)
    /\ UNCHANGED <<ctype, cmerged, csv_rows, consolidated>>
    /\ UNCHANGED scrape_vars
    /\ UNCHANGED call_vars
    /\ UNCHANGED pipe_vars

NextConsolidate == SaveMergedCsv \/ ProcessProductFile \/ ConsolidateAgain

SpecConsolidate == InitConsolidate /\ [][NextConsolidate]_vars

(***************************************************************************)
(* Properties of the consolidation.                                        *)
(***************************************************************************)
\* The table process_product_file consolidates.
InputRows == read_csv(csv_rows)

\* process_product_file has been run: it returned or it raised.
Processed == cpc \in {"done", "raised"}

\* The input rows in the group of input row i.
GroupOf(rows, i) == group_items(rows, ctype, create_grouping_key(rows[i], ctype))

RECURSIVE SumVariants(_)
SumVariants(rows) ==
    IF rows = <<>> THEN 0
    ELSE rows[1].Color_Variants + SumVariants(Tail(rows))

\* C6: whenever the consolidator is run on a merged table, every input row
\* lands in exactly one group: the run yields a table whose rows all have
\* Color_Variants >= 1 and whose Color_Variants add up to the number of input
\* rows.
C6_EveryRowInOneGroup ==
    Processed =>
        /\ cpc = "done"
        /\ \A g \in 1..Len(consolidated) : consolidated[g].Color_Variants >= 1
        /\ SumVariants(consolidated) = Len(InputRows)

\* C7: a table holding a row whose PRODUCT_NAME is missing is consolidated
\* without an exception, and every group, the missing-name row's included,
\* has its output row.
C7_MissingNameNeverFails ==
    (Processed /\ \E i \in 1..Len(InputRows) : InputRows[i].PRODUCT_NAME = NaNName) =>
        /\ cpc = "done"
        /\ Len(consolidated) = Len(group_keys(InputRows, ctype))

\* name.split(' - ')[1]: the words after the dash.
AfterDash(name) ==
    SubSeq(name, (CHOOSE i \in DashAt(name) : \A j \in DashAt(name) : i <= j) + 1, Len(name))

\* The colour written after the dash, as one string.
ColourLabel(words) == IF words = <<"Space", "Gray">> THEN "Space Gray" ELSE words[1]

\* The iPad input rows named "<base> - <colour>" for the base given.
DashRows(base) ==
    { i \in 1..Len(InputRows) :
        /\ HasDash(InputRows[i].PRODUCT_NAME)
        /\ BeforeDash(InputRows[i].PRODUCT_NAME) = base }

\* C8: iPad rows named "<base> - <colour>" with one base, two or more of them
\* and alone in their group, come out as one row whose PRODUCT_NAME is the
\* base, whose Color_Variants is their number and whose Available_Colors is
\* exactly their colours, sorted.
C8_DashColoursConsolidate ==
    (ctype = "ipad" /\ cpc = "done") =>
        \A i \in 1..Len(InputRows) :
            LET base == BeforeDash(InputRows[i].PRODUCT_NAME)
                members == DashRows(base)
            IN  ( /\ HasDash(InputRows[i].PRODUCT_NAME)
                  /\ Cardinality(members) >= 2
                  /\ Len(GroupOf(InputRows, i)) = Cardinality(members) )
                => \E g \in 1..Len(consolidated) :
                      /\ consolidated[g].PRODUCT_NAME = base
                      /\ consolidated[g].Color_Variants = Cardinality(members)
                      /\ consolidated[g].Available_Colors =
                            Sorted({ ColourLabel(AfterDash(InputRows[k].PRODUCT_NAME)) : k \in members })

\* Two rows agree on Price_US, Chip, Memory and Storage.
SameConfig(r1, r2) ==
    /\ r1.Price["US"] = r2.Price["US"]
    /\ r1.Chip = r2.Chip
    /\ r1.Memory = r2.Memory
    /\ r1.Storage = r2.Storage

\* C9: two Mac rows are in one group exactly when they agree on Price_US,
\* Chip, Memory and Storage, whatever their names; two rows that agree, and
\* no third with them, come out as one row with Color_Variants = 2.
C9_MacGroupsByConfig ==
    (ctype = "mac" /\ Processed) =>
        \A i, j \in 1..Len(InputRows) :
            i # j =>
                /\ SameConfig(InputRows[i], InputRows[j])
                      <=> (create_grouping_key(InputRows[i], ctype)
                             = create_grouping_key(InputRows[j], ctype))
                /\ (SameConfig(InputRows[i], InputRows[j]) /\ Len(GroupOf(InputRows, i)) = 2)
                      => /\ cpc = "done"
                         /\ \E g \in 1..Len(consolidated) :
                               /\ SameConfig(consolidated[g], InputRows[i])
                               /\ consolidated[g].Color_Variants = 2

\* The rows of a table that are alone in their group.
Singles(rows) == { i \in 1..Len(rows) : Len(GroupOf(rows, i)) = 1 }

\* C10, as stated: a row alone in its group is emitted with Available_Colors
\* "Single Option" and Color_Variants 1 and nothing else added or changed, on
\* a merged table and on a table an earlier consolidation returned.
C10_SingleUnchanged ==
    /\ cpc = "done" =>
          \A i \in Singles(InputRows) :
              \E g \in 1..Len(consolidated) :
                  consolidated[g] = [ InputRows[i] EXCEPT !.Available_Colors = <<"Single Option">>,
                                                          !.Color_Variants = 1 ]
    /\ cpc = "again" =>
          \A i \in Singles(consolidated) :
              \E g \in 1..Len(reconsolidated) :
                  reconsolidated[g] = [ consolidated[i] EXCEPT !.Available_Colors = <<"Single Option">>,
                                                               !.Color_Variants = 1 ]

\* The SKU_Variants columns a row alone in its group ends with: its own SKU
\* in each region where it has one (the US column holds the SKU of a table
\* with a single SKU column), else what the column held.
OwnSkuVariants(row) ==
    [ d \in Displays |->
        LET sku == IF ctype \in {"iphone", "watch"} THEN row.SKU_[d]
                   ELSE IF d = "US" THEN row.SKU ELSE NoColumn
        IN  IF sku \in {NaN, NoColumn} THEN row.SKU_Variants[d] ELSE << sku >> ]

\* What a row alone in its group is emitted as.
SingleOutput(row) ==
    [ row EXCEPT !.Available_Colors = <<"Single Option">>,
                 !.Color_Variants = 1,
                 !.SKU_Variants = OwnSkuVariants(row) ]

\* C10, amended: a row alone in its group keeps every field but
\* Available_Colors, Color_Variants and SKU_Variants, which become
\* "Single Option", 1 and the row's own SKUs; a row an earlier consolidation
\* emitted with Color_Variants = 1 comes back as it was.
C10_SingleKeepsFields ==
    /\ cpc \in {"done", "again"} =>
          \A i \in Singles(InputRows) :
              \E g \in 1..Len(consolidated) : consolidated[g] = SingleOutput(InputRows[i])
    /\ cpc = "again" =>
          \A i \in Singles(consolidated) :
              \E g \in 1..Len(reconsolidated) :
                  /\ reconsolidated[g] = SingleOutput(consolidated[i])
                  /\ consolidated[i].Color_Variants = 1 => reconsolidated[g] = consolidated[i]

\* A coloured row alone in its group has been consolidated, and the table
\* that came out, that row in it, has been consolidated again.
C10_Witness ==
    /\ cpc = "again"
    /\ \E i \in Singles(InputRows) :
          /\ extract_color_from_name(InputRows[i].PRODUCT_NAME) \cap SingleColors # {}
          /\ \E j \in Singles(consolidated) :
                /\ consolidated[j] = SingleOutput(InputRows[i])
                /\ consolidated[j].SKU_Variants["US"] # <<>>

(***************************************************************************)
(* The order of the output rows.                                           *)
(***************************************************************************)
\* The words of the names, in the order Python compares strings.
WordOrder ==
    << "-", "11-inch", "128GB", "16", "256GB", "40mm", "40mm,", "44mm", "44mm,", "A",
       "AirPods", "Aluminum", "Apple", "B", "Black", "Blue", "GPS", "GPS,", "Gray",
       "HomePod", "Mac", "Max", "Midnight", "Model", "Natural", "New", "Pro", "SE",
       "SE,", "Silver", "Space", "Titanium", "Watch", "White", "iPad", "iPhone", "mini" >>

WordRank(w) == CHOOSE i \in 1..Len(WordOrder) : WordOrder[i] = w

\* name1 <= name2 as strings: word by word, a name that is a prefix of the
\* other first (a space sorts before every other character of a word); a
\* missing name after every string, as sort_values puts it.
RECURSIVE NameLeq(_, _)
NameLeq(n1, n2) ==
    IF n1 = NaNName \/ n2 = NaNName THEN n2 = NaNName
    ELSE IF n1 = <<>> THEN TRUE
    ELSE IF n2 = <<>> THEN FALSE
    ELSE IF Head(n1) = Head(n2) THEN NameLeq(Tail(n1), Tail(n2))
    ELSE WordRank(Head(n1)) < WordRank(Head(n2))

\* C11: the table process_product_file gets from consolidate_products and
\* writes is sorted by PRODUCT_NAME, ascending.
C11_SortedByName ==
    cpc = "done" =>
        \A g, h \in 1..Len(consolidated) :
            g < h => NameLeq(consolidated[g].PRODUCT_NAME, consolidated[h].PRODUCT_NAME)

(***************************************************************************)
(* Failures while fetching.                                                *)
(***************************************************************************)
\* C12: no failure while fetching a (model, region) page aborts the run of a
\* scraper: the page counts for no records and get_all_products goes on to
\* the remaining pages.
C12_FetchFailureNeverAborts == pc # "aborted"

\* C13: a product line with no records, its merged file missing or written
\* from the empty table, is skipped with a warning and yields no consolidated
\* rows; main goes on to the next product line.
C13_NoRecordsIsSkipped ==
    (cmerged = <<>> /\ cpc \notin {"merged", "csv", "no file"}) =>
        /\ cpc = "skipped"
        /\ consolidated = <<>>

(***************************************************************************)
(* Strings, character by character: a string is the sequence of its        *)
(* characters.  "U+9ED1" and "U+8272" stand for two non-ASCII characters.  *)
(***************************************************************************)
None == <<"None">>          \* Python's None, which is no string

Raised == <<"Raised">>      \* the call raised an exception

IsString(v) == v \notin {None, Raised}

DigitChars == {"0", "1", "2", "3", "4", "5", "6", "7", "8", "9"}

\* str.lower() of one character
LowerChar(c) ==
    CASE c = "A" -> "a"
      [] c = "B" -> "b"
      [] c = "C" -> "c"
      [] c = "D" -> "d"
      [] c = "E" -> "e"
      [] c = "F" -> "f"
      [] c = "G" -> "g"
      [] c = "H" -> "h"
      [] c = "I" -> "i"
      [] c = "J" -> "j"
      [] c = "K" -> "k"
      [] c = "L" -> "l"
      [] c = "M" -> "m"
      [] c = "N" -> "n"
      [] c = "O" -> "o"
      [] c = "P" -> "p"
      [] c = "Q" -> "q"
      [] c = "R" -> "r"
      [] c = "S" -> "s"
      [] c = "T" -> "t"
      [] c = "U" -> "u"
      [] c = "V" -> "v"
      [] c = "W" -> "w"
      [] c = "X" -> "x"
      [] c = "Y" -> "y"
      [] c = "Z" -> "z"
     [] OTHER -> c

\* str.lower()
lower(s) == [ i \in 1..Len(s) |-> LowerChar(s[i]) ]

\* s[i:].startswith(p)
StartsWithAt(s, p, i) ==
    /\ i >= 1
    /\ i + Len(p) - 1 <= Len(s)
    /\ \A k \in 1..Len(p) : s[i + k - 1] = p[k]

\* Where a greedy run of the characters of a class, begun at i, stops.
RunEnd(s, i, class) ==
    CHOOSE j \in i..(Len(s) + 1) :
        /\ \A k \in i..(j - 1) : s[k] \in class
        /\ j = Len(s) + 1 \/ s[j] \notin class

\* str.replace(old, new), old not empty: every occurrence, left to right.
RECURSIVE replace(_, _, _)
replace(s, old, new) ==
    IF s = <<>> THEN <<>>
    ELSE IF StartsWithAt(s, old, 1)
         THEN new \o replace(SubSeq(s, Len(old) + 1, Len(s)), old, new)
         ELSE << Head(s) >> \o replace(Tail(s), old, new)

\* str.strip()
RECURSIVE strip(_)
strip(s) ==
    IF s = <<>> THEN s
    ELSE IF Head(s) = " " THEN strip(Tail(s))
    ELSE IF s[Len(s)] = " " THEN strip(SubSeq(s, 1, Len(s) - 1))
    ELSE s

\* "_".join(parts)
RECURSIVE join(_, _)
join(sep, parts) ==
    IF parts = <<>> THEN <<>>
    ELSE IF Len(parts) = 1 THEN parts[1]
    ELSE parts[1] \o sep \o join(sep, Tail(parts))

NoMatch == [ found |-> FALSE, group0 |-> <<>>, group1 |-> <<>>, group2 |-> <<>> ]

(***************************************************************************)
(* iphone.standardize_product_name.                                        *)
(***************************************************************************)
\* re.match of r'iphone\s*(\d+)\s*(pro\s*max|pro|plus|se)?' at position i
model_match_at(s, i) ==
    LET b == RunEnd(s, i + 6, {" "})
        c == RunEnd(s, b, DigitChars)
        d == RunEnd(s, c, {" "})
        m == RunEnd(s, d + 3, {" "})
        e == IF StartsWithAt(s, <<"p", "r", "o">>, d) /\ StartsWithAt(s, <<"m", "a", "x">>, m) THEN m + 3
             ELSE IF StartsWithAt(s, <<"p", "r", "o">>, d) THEN d + 3
             ELSE IF StartsWithAt(s, <<"p", "l", "u", "s">>, d) THEN d + 4
             ELSE IF StartsWithAt(s, <<"s", "e">>, d) THEN d + 2
             ELSE d
    IN  IF StartsWithAt(s, <<"i", "p", "h", "o", "n", "e">>, i) /\ c > b
        THEN [ found |-> TRUE, group0 |-> SubSeq(s, i, e - 1),
               group1 |-> SubSeq(s, b, c - 1), group2 |-> SubSeq(s, d, e - 1) ]
        ELSE NoMatch

\* re.search: the leftmost match
model_match(s) ==
    LET at == { i \in 1..Len(s) : model_match_at(s, i).found }
    IN  IF at = {} THEN NoMatch
        ELSE model_match_at(s, CHOOSE i \in at : \A j \in at : i <= j)

\* re.match of r'(\d+)\s*(gb|tb)' at position i
storage_match_at(s, i) ==
    LET c == RunEnd(s, i, DigitChars)
        d == RunEnd(s, c, {" "})
    IN  IF c > i /\ (StartsWithAt(s, <<"g", "b">>, d) \/ StartsWithAt(s, <<"t", "b">>, d))
        THEN [ found |-> TRUE, group0 |-> SubSeq(s, i, d + 1),
               group1 |-> SubSeq(s, i, c - 1), group2 |-> SubSeq(s, d, d + 1) ]
        ELSE NoMatch

storage_match(s) ==
    LET at == { i \in 1..Len(s) : storage_match_at(s, i).found }
    IN  IF at = {} THEN NoMatch
        ELSE storage_match_at(s, CHOOSE i \in at : \A j \in at : i <= j)

\* A standardize_product_name that keeps the spaces inside the variant.
standardize_keeps_variant_spaces(name0) ==
    IF name0 = None \/ name0 = <<>> THEN <<>>
    ELSE LET name == lower(name0)
             mm == model_match(name)
             sm == storage_match(name)
             copy1 == IF mm.found THEN replace(name, mm.group0, <<>>) ELSE name
             copy2 == IF sm.found THEN replace(copy1, sm.group0, <<>>) ELSE copy1
             color == replace(strip(copy2), <<" ">>, <<>>)
             key_parts ==
                 (IF mm.found THEN << <<"i", "p", "h", "o", "n", "e">> \o mm.group1 \o mm.group2 >> ELSE <<>>)
                 \o (IF sm.found THEN << sm.group1 \o sm.group2 >> ELSE <<>>)
                 \o (IF color # <<>> THEN << color >> ELSE <<>>)
         IN  IF key_parts # <<>> THEN join(<<"_">>, key_parts)
             ELSE replace(name, <<" ">>, <<>>)

\* A standardize_product_name without the guard "if not name".
standardize_no_guard(name0) ==
    IF name0 = None THEN Raised
    ELSE replace(lower(name0), <<" ">>, <<>>)

\* iphone.standardize_product_name
standardize_product_name(name0) ==
    IF name0 = None \/ name0 = <<>> THEN <<>>
    ELSE LET name == lower(name0)
             mm == model_match(name)
             sm == storage_match(name)
             copy1 == IF mm.found THEN replace(name, mm.group0, <<>>) ELSE name
             copy2 == IF sm.found THEN replace(copy1, sm.group0, <<>>) ELSE copy1
             color == replace(strip(copy2), <<" ">>, <<>>)
             key_parts ==
                 (IF mm.found
                  THEN << <<"i", "p", "h", "o", "n", "e">> \o mm.group1 \o replace(mm.group2, <<" ">>, <<>>) >>
                  ELSE <<>>)
                 \o (IF sm.found THEN << sm.group1 \o sm.group2 >> ELSE <<>>)
                 \o (IF color # <<>> THEN << color >> ELSE <<>>)
         IN  IF key_parts # <<>> THEN join(<<"_">>, key_parts)
             ELSE replace(name, <<" ">>, <<>>)

\* watch.standardize_product_name
watch_standardize_product_name(name0) ==
    IF name0 = None \/ name0 = <<>> THEN <<>>
    ELSE LET n1 == replace(replace(lower(name0), <<" ">>, <<"_">>), <<",">>, <<>>)
             n2 == replace(n1, <<"a", "p", "p", "l", "e", "_", "w", "a", "t", "c", "h", "_">>, <<>>)
         IN  replace(n2, <<"s", "e", "r", "i", "e", "s", "_", "1", "0">>, <<"s", "1", "0">>)

(***************************************************************************)
(* get_available_models of iphone.py, ipad.py and mac.py.  A listing page  *)
(* is the set of the link targets it holds, each named by what follows     *)
(* "/shop/buy-<line>/" in the href.                                        *)
(***************************************************************************)
default_models(line) ==
    CASE line = "iphone" -> <<"iphone-16-pro", "iphone-16", "iphone-16e", "iphone-15">>
      [] line = "ipad"   -> <<"ipad-pro", "ipad-air", "ipad", "ipad-mini">>
      [] OTHER           -> <<"mac-mini", "imac", "mac-studio">>

\* The link targets a listing page of the line can hold.
PageLinks(line) ==
    CASE line = "iphone" -> {"iphone-16", "iphone-15", "carrier-offers"}
      [] line = "ipad"   -> {"ipad-pro", "ipad", "accessories"}
      [] OTHER           -> {"mac-mini", "macbook-air", "studio-display", "compare"}

\* The targets the loop over the links appends to <line>_links.
model_links(line, hrefs) ==
    CASE line = "iphone" -> hrefs \cap {"iphone-16", "iphone-15"}     \* 'buy-iphone/iphone-' in href
      [] line = "ipad"   -> hrefs \cap {"ipad-pro", "ipad"}           \* startswith('ipad-') or == 'ipad'
      [] OTHER           -> hrefs \ {"compare"}                       \* no 'compare', 'accessories', ...

\* mac.py keeps the main Mac computers only.
main_models(line, links) ==
    IF line = "mac" THEN links \cap {"mac-mini", "imac", "mac-studio", "macbook-air", "macbook-pro"}
    ELSE links

\* list(set(links)): the members in some order.
ListsOf(S) ==
    { o \in [1..Cardinality(S) -> S] : \A i, j \in 1..Cardinality(S) : i # j => o[i] # o[j] }

\* A get_available_models that returns what it found, be it nothing.
get_available_models_no_fallback(line, outcome, hrefs) ==
    IF outcome # "ok" THEN { default_models(line) }
    ELSE ListsOf(main_models(line, model_links(line, hrefs)))

\* get_available_models: the lists it can return, the order of list(set())
\* being any.
get_available_models(line, outcome, hrefs) ==
    IF outcome # "ok" THEN { default_models(line) }
    ELSE LET unique_models == model_links(line, hrefs)
         IN  IF unique_models = {} \/ main_models(line, unique_models) = {}
             THEN { default_models(line) }
             ELSE ListsOf(main_models(line, unique_models))

\* The arguments of get_available_models: the scraper, how the request ended
\* and what the page held.
ModelArgs ==
    LET ResponseOutcomes == {"ok", "status", "raised"}
    IN  { [ line |-> l, outcome |-> o, hrefs |-> h ] :
            l \in {"iphone", "ipad", "mac"}, o \in ResponseOutcomes,
            h \in UNION { SUBSET PageLinks(x) : x \in {"iphone", "ipad", "mac"} } }

(***************************************************************************)
(* csv_to_json of convert_to_json.py.  A CSV table is its header and its   *)
(* rows, a row a function of the header's columns; a number cell is <<n>>, *)
(* an empty cell, which read_csv makes NaN, is <<>>.  The exchange rate    *)
(* and price_difference_percent are counted in tenths: 315 is 31.5 TWD to  *)
(* the dollar and <<12>> is 1.2 percent.                                   *)
(***************************************************************************)
\* round(x, 1) of x = n / d percent with d > 0, in tenths: the nearest tenth,
\* and either neighbour where the quotient lies half way, the float that
\* stands for x being a little off it.
round1(n, d) ==
    LET q == (10 * n) \div d
        r == (10 * n) % d
    IN  IF 2 * r < d THEN {q} ELSE IF 2 * r > d THEN {q + 1} ELSE {q, q + 1}

\* The body of the loop over the products: the values price_difference_percent
\* can get, {} where it is not set.  p[..] or 0 keeps a NaN, which is true.
diff_percent(p, rate) ==
    IF "Price_US" \in DOMAIN p /\ "Price_TW" \in DOMAIN p
    THEN LET usd_price == p["Price_US"]
             twd_price == p["Price_TW"]
         IN  IF usd_price # <<>> /\ usd_price[1] > 0
             THEN IF twd_price = <<>> THEN { <<>> }
                  ELSE { <<t>> : t \in round1(100 * (10 * twd_price[1] - usd_price[1] * rate),
                                              usd_price[1] * rate) }
             ELSE { <<0>> }
    ELSE {}

\* twd_price / exchange_rates['TWD'] raises ZeroDivisionError, which the
\* except clause turns into the return value False.
csv_to_json_raises(rows, rate) ==
    /\ rate = 0
    /\ \E i \in 1..Len(rows) :
         /\ "Price_US" \in DOMAIN rows[i] /\ "Price_TW" \in DOMAIN rows[i]
         /\ rows[i]["Price_US"] # <<>>
         /\ rows[i]["Price_US"][1] > 0

\* The product objects a CSV row can become.
products_of(row, ptype, rate) ==
    LET p == ("product_type" :> <<ptype>>) @@ row
        d == diff_percent(row, rate)
    IN  IF d = {} THEN {p} ELSE { ("price_difference_percent" :> v) @@ p : v \in d }

RECURSIVE products(_, _, _, _)
products(rows, n, ptype, rate) ==
    IF n = 0 THEN { <<>> }
    ELSE { Append(ps, p) : ps \in products(rows, n - 1, ptype, rate),
                           p \in products_of(rows[n], ptype, rate) }

\* csv_to_json: what it can have written, ok being its return value.
csv_to_json(rows, ptype, rate) ==
    IF rows = <<>> \/ csv_to_json_raises(rows, rate)
    THEN { [ ok |-> FALSE, products |-> <<>> ] }
    ELSE { [ ok |-> TRUE, products |-> ps ] : ps \in products(rows, Len(rows), ptype, rate) }

\* The arguments of csv_to_json: the rows read from the CSV file, the product
\* type and the exchange rate.
CsvArgs ==
    LET Headers ==
            { {"PRODUCT_NAME", "Price_US", "Price_TW"}, {"PRODUCT_NAME", "Price_US"},
              {"PRODUCT_NAME", "Price_TW"}, {"PRODUCT_NAME"} }
        CsvRows(cols) ==
            { [ c \in cols |-> CASE c = "Price_US" -> us [] c = "Price_TW" -> tw [] OTHER -> <<"X">> ] :
                us \in { <<>>, <<-5>>, <<0>>, <<8>>, <<999>> }, tw \in { <<>>, <<243>>, <<31900>> } }
        TwdRates == {0, 300, 315}       \* exchange_rates['TWD']
    IN  { [ rows |-> r, product_type |-> "test", rate |-> x ] :
            r \in UNION { SeqsUpTo(CsvRows(h), MaxCsvRows) : h \in Headers }, x \in TwdRates }

(***************************************************************************)
(* match_products_with_specs of mac.py.  A product of the page's JSON is   *)
(* its sku and its price entry: no "price" key, "price": null, a price     *)
(* object without fullPrice, "fullPrice": null, or a number.  A spec       *)
(* variant is told by its storage: '' or a number and its unit.            *)
(***************************************************************************)
SpecVariants ==
    { [ chip |-> c, storage |-> st ] :
        c \in {"M4"},
        st \in { [ amount |-> 0, unit |-> "" ], [ amount |-> 256, unit |-> "GB" ],
                 [ amount |-> 512, unit |-> "GB" ], [ amount |-> 1, unit |-> "TB" ] } }

EmptySpecs == [ chip |-> "", storage |-> [ amount |-> 0, unit |-> "" ] ]

\* x.get('price', {}).get('fullPrice', 0), which is None where fullPrice
\* is null.
price_key(x) ==
    [ none |-> x.price.kind = "null fullPrice",
      v    |-> IF x.price.kind = "number" THEN x.price.fullPrice ELSE 0 ]

storage_sort_key(specs) ==
    IF specs.storage.unit = "TB" THEN specs.storage.amount * 1000
    ELSE IF specs.storage.unit = "GB" THEN specs.storage.amount
    ELSE 0

\* sorted(): the stable ascending order of the positions of the keys.
sorted(keys) ==
    CHOOSE o \in [1..Len(keys) -> 1..Len(keys)] :
        /\ \A i, j \in 1..Len(keys) : i # j => o[i] # o[j]
        /\ \A i, j \in 1..Len(keys) :
             i < j => \/ keys[o[i]] < keys[o[j]]
                      \/ keys[o[i]] = keys[o[j]] /\ o[i] < o[j]

\* Sorting the products raises: None.get on "price": null (AttributeError),
\* or None compared with another key (TypeError).
sort_raises(prods) ==
    \/ \E i \in 1..Len(prods) : prods[i].price.kind = "null"
    \/ /\ Len(prods) >= 2
       /\ \E i \in 1..Len(prods) : price_key(prods[i]).none

match_products_with_specs(prods, spec_variants) ==
    IF spec_variants = <<>>
    THEN [ raised |-> FALSE,
           matched |-> [ i \in 1..Len(prods) |-> [ product |-> prods[i], specs |-> EmptySpecs ] ] ]
    ELSE IF sort_raises(prods) THEN [ raised |-> TRUE, matched |-> <<>> ]
    ELSE LET po == sorted([ i \in 1..Len(prods) |-> price_key(prods[i]).v ])
             so == sorted([ i \in 1..Len(spec_variants) |-> storage_sort_key(spec_variants[i]) ])
         IN  [ raised |-> FALSE,
               matched |-> [ i \in 1..Len(prods) |->
                   [ product |-> prods[po[i]],
                     specs   |-> spec_variants[so[((i - 1) % Len(spec_variants)) + 1]] ] ] ]

MatchArgs ==
    LET JsonPrices ==
            { [ kind |-> k, fullPrice |-> 0 ] : k \in {"no price", "null", "no fullPrice", "null fullPrice"} }
            \cup { [ kind |-> "number", fullPrice |-> n ] : n \in {599, 799} }
        JsonProducts == { [ sku |-> x, price |-> q ] : x \in {"A", "B"}, q \in JsonPrices }
    IN  { [ products |-> ps, spec_variants |-> sv ] :
            ps \in SeqsUpTo(JsonProducts, MaxProducts), sv \in SeqsUpTo(SpecVariants, MaxProducts) }

(***************************************************************************)
(* extract_specs_from_text of mac.py.  A configuration text is the         *)
(* sequence of its words, one space apart; a word is its letters w as      *)
(* written, the number n written before them ("36GB" is GB with 36,        *)
(* "12-core" is -core with 12) or after them ("M3" is M with 3), and the   *)
(* punctuation p that follows it.                                          *)
(***************************************************************************)
\* The texts given to extract_specs_from_text: up to MaxPhrases phrases, and
\* the configuration text with all six fields.
SpecTexts ==
    LET SpecPhrases ==
            { << [ w |-> "Apple", n |-> 0, p |-> "" ], [ w |-> "M", n |-> 3, p |-> "" ], [ w |-> "Pro", n |-> 0, p |-> "" ], [ w |-> "chip", n |-> 0, p |-> "" ] >>,
              << [ w |-> "M", n |-> 2, p |-> "" ], [ w |-> "chip", n |-> 0, p |-> "" ] >>,
              << [ w |-> "Apple", n |-> 0, p |-> "" ], [ w |-> "M", n |-> 5, p |-> "" ], [ w |-> "chip", n |-> 0, p |-> "" ] >>,
              << [ w |-> "-core", n |-> 12, p |-> "" ], [ w |-> "CPU", n |-> 0, p |-> "" ] >>,
              << [ w |-> "-core", n |-> 18, p |-> "" ], [ w |-> "GPU", n |-> 0, p |-> "" ] >>,
              << [ w |-> "-core", n |-> 16, p |-> "" ], [ w |-> "Neural", n |-> 0, p |-> "" ], [ w |-> "Engine", n |-> 0, p |-> "" ] >>,
              << [ w |-> "GB", n |-> 36, p |-> "" ], [ w |-> "unified", n |-> 0, p |-> "" ], [ w |-> "memory", n |-> 0, p |-> "" ] >>,
              << [ w |-> "gb", n |-> 16, p |-> "" ], [ w |-> "memory", n |-> 0, p |-> "" ] >>,
              << [ w |-> "Memory", n |-> 0, p |-> ":" ], [ w |-> "GB", n |-> 24, p |-> "" ] >>,
              << [ w |-> "GB", n |-> 512, p |-> "" ], [ w |-> "storage", n |-> 0, p |-> "" ] >>,
              << [ w |-> "TB", n |-> 1, p |-> "" ], [ w |-> "storage", n |-> 0, p |-> "" ] >>,
              << [ w |-> "Storage", n |-> 0, p |-> ":" ], [ w |-> "TB", n |-> 2, p |-> "" ] >>,
              << [ w |-> "GB", n |-> 256, p |-> "" ], [ w |-> "SSD", n |-> 0, p |-> "" ], [ w |-> "storage", n |-> 0, p |-> "" ] >> }
        WithComma(ph) == [ i \in 1..Len(ph) |-> IF i = Len(ph) THEN [ ph[i] EXCEPT !.p = "," ] ELSE ph[i] ]
    IN  { Concat(t) : t \in SeqsUpTo(SpecPhrases \cup { WithComma(ph) : ph \in SpecPhrases }, MaxPhrases) }
        \cup { Concat(<< WithComma(<< [ w |-> "Apple", n |-> 0, p |-> "" ], [ w |-> "M", n |-> 3, p |-> "" ], [ w |-> "Pro", n |-> 0, p |-> "" ], [ w |-> "chip", n |-> 0, p |-> "" ] >>), WithComma(<< [ w |-> "-core", n |-> 12, p |-> "" ], [ w |-> "CPU", n |-> 0, p |-> "" ] >>), WithComma(<< [ w |-> "-core", n |-> 18, p |-> "" ], [ w |-> "GPU", n |-> 0, p |-> "" ] >>),
                         WithComma(<< [ w |-> "-core", n |-> 16, p |-> "" ], [ w |-> "Neural", n |-> 0, p |-> "" ], [ w |-> "Engine", n |-> 0, p |-> "" ] >>), WithComma(<< [ w |-> "GB", n |-> 36, p |-> "" ], [ w |-> "unified", n |-> 0, p |-> "" ], [ w |-> "memory", n |-> 0, p |-> "" ] >>), << [ w |-> "GB", n |-> 512, p |-> "" ], [ w |-> "storage", n |-> 0, p |-> "" ] >> >>) }

\* text.lower(), and the upper() of what was matched.
text_lower(text) ==
    [ i \in 1..Len(text) |->
        [ text[i] EXCEPT !.w =
            CASE @ = "Apple" -> "apple"  [] @ = "M" -> "m"        [] @ = "Pro" -> "pro"
              [] @ = "CPU" -> "cpu"      [] @ = "GPU" -> "gpu"    [] @ = "Neural" -> "neural"
              [] @ = "Engine" -> "engine" [] @ = "GB" -> "gb"     [] @ = "TB" -> "tb"
              [] @ = "Memory" -> "memory" [] @ = "Storage" -> "storage" [] @ = "SSD" -> "ssd"
              [] OTHER -> @ ] ]

upper(w) ==
    CASE w = "m" -> "M" [] w = "pro" -> "PRO" [] w = "max" -> "MAX" [] w = "ultra" -> "ULTRA"
      [] w = "gb" -> "GB" [] w = "tb" -> "TB" [] OTHER -> w

NoSpecMatch == [ found |-> FALSE, words |-> <<>> ]

\* re.match of a pattern at word i of the lower-cased text; words holds the
\* words of the pattern's groups.  \s+ needs a word with nothing after it,
\* [:\s]* allows a colon.
pattern_at(s, i, pattern) ==
    LET word(j) == IF j <= Len(s) THEN s[j] ELSE [ w |-> "", n |-> 0, p |-> "" ]
        is(j, w) == word(j).w = w
        then(j, w) == is(j, w) /\ word(j).p = ""
        chip_at(j) ==
            IF then(j, "m") /\ word(j).n \in 1..4
            THEN IF word(j + 1).w \in {"pro", "max", "ultra"} /\ word(j + 1).p = "" /\ is(j + 2, "chip")
                 THEN [ found |-> TRUE, words |-> << word(j), word(j + 1) >> ]
                 ELSE IF is(j + 1, "chip") THEN [ found |-> TRUE, words |-> << word(j) >> ]
                 ELSE NoSpecMatch
            ELSE NoSpecMatch
        one(cond) == IF cond THEN [ found |-> TRUE, words |-> << word(i) >> ] ELSE NoSpecMatch
        two(cond) == IF cond THEN [ found |-> TRUE, words |-> << word(i + 1) >> ] ELSE NoSpecMatch
    IN  CASE pattern = "apple chip" -> IF then(i, "apple") THEN chip_at(i + 1) ELSE NoSpecMatch
          [] pattern = "chip"       -> chip_at(i)
          [] pattern = "cpu"        -> one(then(i, "-core") /\ is(i + 1, "cpu"))
          [] pattern = "gpu"        -> one(then(i, "-core") /\ is(i + 1, "gpu"))
          [] pattern = "neural"     -> one(then(i, "-core") /\ then(i + 1, "neural") /\ is(i + 2, "engine"))
          [] pattern = "memory 1"   -> one(then(i, "gb") /\ (is(i + 1, "memory")
                                                \/ (then(i + 1, "unified") /\ is(i + 2, "memory"))))
          [] pattern = "memory 2"   -> one(then(i, "gb") /\ is(i + 1, "memory"))
          [] pattern = "memory 3"   -> two(is(i, "memory") /\ word(i).p \in {"", ":"} /\ is(i + 1, "gb"))
          [] pattern = "storage 1"  -> one(word(i).w \in {"gb", "tb"} /\ word(i).p = "" /\ is(i + 1, "storage"))
          [] pattern = "storage 2"  -> two(is(i, "storage") /\ word(i).p \in {"", ":"}
                                           /\ word(i + 1).w \in {"gb", "tb"})

\* The first pattern of the list that re.search finds, at its leftmost
\* match.
RECURSIVE search(_, _)
search(s, patterns) ==
    IF patterns = <<>> THEN NoSpecMatch
    ELSE LET at == { i \in 1..Len(s) : pattern_at(s, i, Head(patterns)).found }
         IN  IF at = {} THEN search(s, Tail(patterns))
             ELSE pattern_at(s, CHOOSE i \in at : \A j \in at : i <= j, Head(patterns))

\* An extract_specs_from_text that takes the chip mentioned first in the
\* text, whichever pattern it matches.
extract_specs_first_chip(text) ==
    LET s == text_lower(text)
        at == { i \in 1..Len(s) : pattern_at(s, i, "apple chip").found \/ pattern_at(s, i, "chip").found }
        first == CHOOSE i \in at : \A j \in at : i <= j
        storage == search(s, << "storage 1", "storage 2" >>)
        number(m) == IF m.found THEN << m.words[1].n >> ELSE <<>>
    IN  [ chip          |-> IF at = {} THEN <<>>
                            ELSE LET m == IF pattern_at(s, first, "apple chip").found
                                          THEN pattern_at(s, first, "apple chip")
                                          ELSE pattern_at(s, first, "chip")
                                 IN  [ k \in 1..Len(m.words) |->
                                         [ w |-> upper(m.words[k].w), n |-> m.words[k].n ] ],
          cpu_cores     |-> number(search(s, << "cpu" >>)),
          gpu_cores     |-> number(search(s, << "gpu" >>)),
          neural_engine |-> number(search(s, << "neural" >>)),
          memory        |-> number(search(s, << "memory 1", "memory 2", "memory 3" >>)),
          storage       |-> IF storage.found
                            THEN [ amount |-> storage.words[1].n, unit |-> upper(storage.words[1].w) ]
                            ELSE [ amount |-> 0, unit |-> "" ] ]

\* extract_specs_from_text; a number field is <<>> for '' and <<n>> for the
\* digits, memory the number before its "GB", chip the words of "M3 PRO".
extract_specs_from_text(text) ==
    LET s == text_lower(text)
        chip == search(s, << "apple chip", "chip" >>)
        storage == search(s, << "storage 1", "storage 2" >>)
        number(m) == IF m.found THEN << m.words[1].n >> ELSE <<>>
    IN  [ chip          |-> [ k \in 1..Len(chip.words) |->
                                [ w |-> upper(chip.words[k].w), n |-> chip.words[k].n ] ],
          cpu_cores     |-> number(search(s, << "cpu" >>)),
          gpu_cores     |-> number(search(s, << "gpu" >>)),
          neural_engine |-> number(search(s, << "neural" >>)),
          memory        |-> number(search(s, << "memory 1", "memory 2", "memory 3" >>)),
          storage       |-> IF storage.found
                            THEN [ amount |-> storage.words[1].n, unit |-> upper(storage.words[1].w) ]
                            ELSE [ amount |-> 0, unit |-> "" ] ]

(***************************************************************************)
(* Calls of single functions: the argument is drawn at the start, the      *)
(* function is called on it up to MaxCalls times.                          *)
(***************************************************************************)
NameArgs ==
    LET IphoneNumbers == { <<"1", "6">>, <<"1", "5">> }
        IphoneVariants ==
            { <<>>, <<"P", "r", "o">>, <<"P", "r", "o", " ", "M", "a", "x">>,
              <<"P", "l", "u", "s">>, <<"S", "E">> }
        Capacities == { <<"1", "2", "8", "G", "B">>, <<"1", "T", "B">> }
        ColourNames ==
            { <<"B", "l", "u", "e">>,
              <<"N", "a", "t", "u", "r", "a", "l", " ", "T", "i", "t", "a", "n", "i", "u", "m">>,
              <<"U+9ED1", "U+8272">> }
        MadeName(n, variant, capacity, colour) ==
            join(<<" ">>, << <<"i", "P", "h", "o", "n", "e">>, n >> \o (IF variant = <<>> THEN <<>> ELSE << variant >>)
                          \o << capacity, colour >>)
        OtherNames ==
            { <<>>, None, <<" ">>,
              <<"i", "P", "h", "o", "n", "e">>,
              <<"A", "i", "r", "P", "o", "d", "s", " ", "P", "r", "o">>,
              <<"U+9ED1", "U+8272", " ", "1", "2", "8", "G", "B">>,
              <<"i", "P", "h", "o", "n", "e", " ", "1", "6", "e", " ", "1", "2", "8", "G", "B", " ", "B", "l", "a", "c", "k">>,
              <<"A", "p", "p", "l", "e", " ", "W", "a", "t", "c", "h", " ", "S", "e", "r", "i", "e", "s", " ", "1", "0", ",", " ", "G", "P", "S", ",", " ", "4", "2", "m", "m">> }
    IN  { [ name |-> MadeName(n, v, c, col), parts |-> << n, v, c, col >> ] :
            n \in IphoneNumbers, v \in IphoneVariants, c \in Capacities, col \in ColourNames }
        \cup { [ name |-> o, parts |-> <<>> ] : o \in OtherNames }

\* The arguments of create_grouping_key: a row of an iPhone or iPad table and
\* its product type.
KeyArgs ==
    { [ row |-> [ PRODUCT_NAME |-> n, Price |-> [ US |-> 5, TW |-> 50 ] ], t |-> t ] :
        n \in { <<"iPad", "Pro", "11-inch", "-", "Silver">>, <<"iPad", "mini", "-", "Space", "Gray">>,
                <<"iPad", "Pro", "11-inch">>, <<"iPad", "mini", "Blue">>, <<"iPad", "Pro", "Midnight">>,
                <<"iPad", "Pro", "Titanium">>, <<"iPad">>, <<"iPhone", "16", "128GB", "Black">>,
                <<"iPhone", "16", "Pro", "256GB", "Natural", "Titanium">>, NaNName },
        t \in {"iphone", "ipad"} }

(***************************************************************************)
(* test_data_validator.py.  A run of the validations is told by the        *)
(* results it logs, each with its passed flag and its severity.            *)
(***************************************************************************)
\* log_result: self.errors after the results given have been logged.
log_result(results) ==
    SelectSeq(results, LAMBDA r : ~r.passed /\ r.severity = "error")

\* print_summary: return len(self.errors) == 0
print_summary(results) == IF Len(log_result(results)) = 0 THEN "True" ELSE "False"

\* run_all_validations ends with the statement self.print_summary() and has
\* no return statement: it returns None.
run_all_validations(results) ==
    LET summary == print_summary(results) IN "None"

\* main returns what run_all_validations returned, and the script exits
\* with sys.exit(0 if success else 1): None and False are false.
validator_main(results) ==
    LET success == run_all_validations(results)
    IN  [ success |-> success, status |-> IF success = "True" THEN 0 ELSE 1 ]

Functions ==
    { "iphone.standardize_product_name", "watch.standardize_product_name",
      "get_available_models", "csv_to_json", "mac.match_products_with_specs",
      "mac.extract_specs_from_text", "create_grouping_key", "test_data_validator.main" }

Args(f) ==
    CASE f = "get_available_models" -> { a \in ModelArgs : a.hrefs \subseteq PageLinks(a.line) }
      [] f = "csv_to_json" -> CsvArgs
      [] f = "mac.match_products_with_specs" -> MatchArgs
      [] f = "mac.extract_specs_from_text" -> SpecTexts
      [] f = "create_grouping_key" -> KeyArgs
      [] f = "test_data_validator.main" ->
            SeqsUpTo([ passed : BOOLEAN, severity : {"info", "warning", "error"} ], MaxResults)
      [] OTHER -> NameArgs

InitCalls ==
    /\ ScrapeIdle
    /\ ConsIdle
    /\ PipeIdle
    /\ fname \in Functions
    /\ farg \in Args(fname)
    /\ fres = <<>>

CallStandardizeProductName ==
    /\ fname = "iphone.standardize_product_name"
    /\ Len(fres) < MaxCalls
    /\ fres' = Append(fres, standardize_product_name(farg.name))
    /\ UNCHANGED <<fname, farg>>
    /\ UNCHANGED <<scrape_vars, cons_vars, pipe_vars>>

CallWatchStandardizeProductName ==
    /\ fname = "watch.standardize_product_name"
    /\ Len(fres) < MaxCalls
    /\ fres' = Append(fres, watch_standardize_product_name(farg.name))
    /\ UNCHANGED <<fname, farg>>
    /\ UNCHANGED <<scrape_vars, cons_vars, pipe_vars>>

CallGetAvailableModels ==
    /\ fname = "get_available_models"
    /\ Len(fres) < MaxCalls
    /\ \E r \in get_available_models(farg.line, farg.outcome, farg.hrefs) :
         fres' = Append(fres, r)
    /\ UNCHANGED <<fname, farg>>
    /\ UNCHANGED <<scrape_vars, cons_vars, pipe_vars>>

CallCsvToJson ==
    /\ fname = "csv_to_json"
    /\ Len(fres) < MaxCalls
    /\ \E r \in csv_to_json(farg.rows, farg.product_type, farg.rate) :
         fres' = Append(fres, r)
    /\ UNCHANGED <<fname, farg>>
    /\ UNCHANGED <<scrape_vars, cons_vars, pipe_vars>>

CallMatchProductsWithSpecs ==
    /\ fname = "mac.match_products_with_specs"
    /\ Len(fres) < MaxCalls
    /\ fres' = Append(fres, match_products_with_specs(farg.products, farg.spec_variants))
    /\ UNCHANGED <<fname, farg>>
    /\ UNCHANGED <<scrape_vars, cons_vars, pipe_vars>>

CallExtractSpecsFromText ==
    /\ fname = "mac.extract_specs_from_text"
    /\ Len(fres) < MaxCalls
    /\ fres' = Append(fres, extract_specs_from_text(farg))
    /\ UNCHANGED <<fname, farg>>
    /\ UNCHANGED <<scrape_vars, cons_vars, pipe_vars>>

CallCreateGroupingKey ==
    /\ fname = "create_grouping_key"
    /\ Len(fres) < MaxCalls
    /\ fres' = Append(fres, IF key_raises(farg.row, farg.t)
                            THEN [ name |-> Raised, price |-> NoPrice, spec |-> <<>> ]
                            ELSE create_grouping_key(farg.row, farg.t))
    /\ UNCHANGED <<fname, farg>>
    /\ UNCHANGED <<scrape_vars, cons_vars, pipe_vars>>

CallValidatorMain ==
    /\ fname = "test_data_validator.main"
    /\ Len(fres) < MaxCalls
    /\ fres' = Append(fres, validator_main(farg))
    /\ UNCHANGED <<fname, farg>>
    /\ UNCHANGED <<scrape_vars, cons_vars, pipe_vars>>

NextCalls ==
    \/ CallValidatorMain
    \/ CallCreateGroupingKey
    \/ CallExtractSpecsFromText
    \/ CallMatchProductsWithSpecs
    \/ CallStandardizeProductName
    \/ CallWatchStandardizeProductName
    \/ CallGetAvailableModels
    \/ CallCsvToJson

SpecCalls == InitCalls /\ [][NextCalls]_vars

ExpectedKey(parts) ==
    <<"i", "p", "h", "o", "n", "e">> \o parts[1] \o replace(lower(parts[2]), <<" ">>, <<>>)
    \o <<"_">> \o lower(parts[3])
    \o <<"_">> \o replace(lower(parts[4]), <<" ">>, <<>>)

\* C15: for "iPhone <N> [<variant>] <capacity> <colour>" the key is
\* "iphone<N><variant>_<capacity>_<colour>", lower-cased, no spaces.
C15_IphoneKey ==
    (fname = "iphone.standardize_product_name" /\ farg.parts # <<>>) =>
        \A k \in 1..Len(fres) : fres[k] = ExpectedKey(farg.parts)

\* "iPhone 15 Pro Max 1TB Natural Titanium" has been standardized.
C15_Witness ==
    /\ fname = "iphone.standardize_product_name"
    /\ farg.name = <<"i", "P", "h", "o", "n", "e", " ", "1", "5", " ", "P", "r", "o", " ", "M", "a", "x", " ", "1", "T", "B", " ", "N", "a", "t", "u", "r", "a", "l", " ", "T", "i", "t", "a", "n", "i", "u", "m">>
    /\ Len(fres) >= 1
    /\ fres[1] = <<"i", "p", "h", "o", "n", "e", "1", "5", "p", "r", "o", "m", "a", "x", "_", "1", "t", "b", "_", "n", "a", "t", "u", "r", "a", "l", "t", "i", "t", "a", "n", "i", "u", "m">>

\* C16: get_available_models of iphone.py, ipad.py and mac.py never raises
\* and never returns the empty list, and returns the default list of its
\* scraper when the status is not 200, when the request raises and when the
\* page holds no link to a model.
C16_ModelsFallBack ==
    fname = "get_available_models" =>
        \A k \in 1..Len(fres) :
            /\ fres[k] # Raised
            /\ fres[k] # <<>>
            /\ (farg.outcome # "ok" \/ model_links(farg.line, farg.hrefs) = {})
                  => fres[k] = default_models(farg.line)

\* The iPhone listing page answered 200 with no link to a model, and the
\* default list came back.
C16_Witness ==
    /\ fname = "get_available_models"
    /\ farg.line = "iphone"
    /\ farg.outcome = "ok"
    /\ farg.hrefs = {"carrier-offers"}
    /\ Len(fres) >= 1
    /\ fres[1] = <<"iphone-16-pro", "iphone-16", "iphone-16e", "iphone-15">>

\* The products csv_to_json wrote from the rows it was given.
Converted ==
    { [ row |-> farg.rows[i], p |-> fres[k].products[i] ] :
        k \in { j \in 1..Len(fres) : fname = "csv_to_json" /\ fres[j].ok },
        i \in 1..(IF fname = "csv_to_json" THEN Len(farg.rows) ELSE 0) }

\* Price_US of the row is a number above 0.
PositiveUS(row) ==
    "Price_US" \in DOMAIN row /\ row["Price_US"] # <<>> /\ row["Price_US"][1] > 0

\* v, in tenths, is ((Price_TW / TWD_rate - Price_US) / Price_US) * 100
\* rounded to one decimal: no tenth is nearer.
RoundedDifference(v, row, rate) ==
    IF row["Price_TW"] = <<>> THEN v = <<>>
    ELSE /\ v # <<>>
         /\ LET n == 1000 * (10 * row["Price_TW"][1] - row["Price_US"][1] * rate)
                d == row["Price_US"][1] * rate
                e == v[1] * d - n
            IN  2 * (IF e < 0 THEN -e ELSE e) <= d

\* C17: for every product row converted by csv_to_json,
\* price_difference_percent is ((Price_TW / TWD_rate - Price_US) / Price_US)
\* * 100 rounded to one decimal when Price_US > 0, and 0 when Price_US is 0,
\* missing or not positive.
C17_PriceDifference ==
    \A c \in Converted :
        IF PositiveUS(c.row)
        THEN "Price_TW" \in DOMAIN c.row =>
                /\ "price_difference_percent" \in DOMAIN c.p
                /\ RoundedDifference(c.p["price_difference_percent"], c.row, farg.rate)
        ELSE /\ "price_difference_percent" \in DOMAIN c.p
             /\ c.p["price_difference_percent"] = <<0>>

\* C18: every product csv_to_json writes carries all fields of its CSV row
\* plus both product_type and price_difference_percent, for every CSV it
\* converts successfully.
C18_ProductFields ==
    \A c \in Converted :
        /\ \A f \in DOMAIN c.row : f \in DOMAIN c.p /\ c.p[f] = c.row[f]
        /\ "product_type" \in DOMAIN c.p
        /\ "price_difference_percent" \in DOMAIN c.p

\* The price the claim orders by, a missing or null price counting as 0.
PriceOf(x) == IF x.price.kind = "number" THEN x.price.fullPrice ELSE 0

\* The storage the claim orders by.
StorageOf(specs) ==
    CASE specs.storage.unit = "TB" -> 1000 * specs.storage.amount
      [] specs.storage.unit = "GB" -> specs.storage.amount
      [] OTHER -> 0

\* seq holds the members of of, each as often, in ascending order of key.
AscendingOrderOf(seq, of, keys) ==
    /\ Len(seq) = Len(of)
    /\ \A x \in {seq[i] : i \in 1..Len(seq)} \cup {of[i] : i \in 1..Len(of)} :
         Cardinality({ i \in 1..Len(seq) : seq[i] = x }) = Cardinality({ i \in 1..Len(of) : of[i] = x })
    /\ \A i, j \in 1..Len(seq) : i < j => keys[i] <= keys[j]

\* C19: match_products_with_specs returns one entry per input product, also
\* for products whose price is missing or null: with no spec variants every
\* product gets the all-empty specs; otherwise the i-th product in ascending
\* price order gets the variant at position i mod n of the ascending storage
\* order of the n variants, TB counting 1000 times its number, GB its
\* number and an empty storage 0.
C19_OneEntryPerProduct ==
    fname = "mac.match_products_with_specs" =>
        \A k \in 1..Len(fres) :
            LET m == fres[k].matched
                n == Len(farg.spec_variants)
            IN  /\ ~fres[k].raised
                /\ Len(m) = Len(farg.products)
                /\ IF n = 0
                   THEN \A i \in 1..Len(m) :
                            m[i].product = farg.products[i] /\ m[i].specs = EmptySpecs
                   ELSE /\ AscendingOrderOf([ i \in 1..Len(m) |-> m[i].product ], farg.products,
                                            [ i \in 1..Len(m) |-> PriceOf(m[i].product) ])
                        /\ \E sv \in [1..n -> SpecVariants] :
                             /\ AscendingOrderOf(sv, farg.spec_variants,
                                                 [ i \in 1..n |-> StorageOf(sv[i]) ])
                             /\ \A i \in 1..Len(m) : m[i].specs = sv[((i - 1) % n) + 1]

\* The words ws begin at word i of the lower-cased text s, one space
\* between them; after may follow the first of them.
Shape(s, i, ws, after) ==
    /\ i >= 1
    /\ i + Len(ws) - 1 <= Len(s)
    /\ \A j \in 1..Len(ws) : s[i + j - 1].w = ws[j]
    /\ \A j \in 2..(Len(ws) - 1) : s[i + j - 1].p = ""
    /\ Len(ws) > 1 => s[i].p \in after

\* Where one of the phrases begins, and the first such place (0: nowhere).
Places(s, phrases, after) ==
    { i \in 1..Len(s) : \E ws \in phrases : Shape(s, i, ws, after) }

FirstOf(S) == IF S = {} THEN 0 ELSE CHOOSE i \in S : \A j \in S : i <= j

\* "M<k> [Pro|Max|Ultra] chip" begins at word i; Known: k is 1 to 4.
ChipPlaces(s, known) ==
    { i \in Places(s, { <<"m", "chip">>, <<"m", "pro", "chip">>, <<"m", "max", "chip">>,
                        <<"m", "ultra", "chip">> }, {""}) : known => s[i].n \in 1..4 }

\* Those of them that "Apple" precedes.
AppleChipPlaces(s, known) ==
    { i \in ChipPlaces(s, known) : i > 1 /\ s[i - 1].w = "apple" /\ s[i - 1].p = "" }

\* "M<k> <QUALIFIER>" upper-cased, of the chip at word i.
ChipName(s, i) ==
    IF i = 0 THEN <<>>
    ELSE IF s[i + 1].w = "chip" THEN << [ w |-> "M", n |-> s[i].n ] >>
    ELSE << [ w |-> "M", n |-> s[i].n ],
            [ w |-> CASE s[i + 1].w = "pro" -> "PRO" [] s[i + 1].w = "max" -> "MAX" [] OTHER -> "ULTRA",
              n |-> 0 ] >>

\* The number of the word at place i, '' where there is no place.
NumberAt(s, i) == IF i = 0 THEN <<>> ELSE << s[i].n >>

StorageAt(s, i) ==
    IF i = 0 THEN [ amount |-> 0, unit |-> "" ]
    ELSE [ amount |-> s[i].n, unit |-> IF s[i].w = "tb" THEN "TB" ELSE "GB" ]

\* The fields that do as the claim says in both its readings: the cores.
CoresAsClaimed(s, r) ==
    /\ r.cpu_cores = NumberAt(s, FirstOf(Places(s, { <<"-core", "cpu">> }, {""})))
    /\ r.gpu_cores = NumberAt(s, FirstOf(Places(s, { <<"-core", "gpu">> }, {""})))
    /\ r.neural_engine = NumberAt(s, FirstOf(Places(s, { <<"-core", "neural", "engine">> }, {""})))

\* C20 (as stated): extract_specs_from_text extracts each field from its
\* phrase, "Apple M<k> [Pro|Max|Ultra] chip", "<a>-core CPU", "<b>-core
\* GPU", "<c>-core Neural Engine", "<m>GB unified memory" and "<s>GB|TB
\* storage"; a field whose phrase is absent is the empty string, and of two
\* chips mentioned the first one in the text is kept.
C20_FirstChipInText ==
    fname = "mac.extract_specs_from_text" =>
        \A k \in 1..Len(fres) :
            LET s == text_lower(farg)
                r == fres[k]
            IN  /\ r.chip = IF AppleChipPlaces(s, FALSE) = {} THEN <<>>
                            ELSE ChipName(s, FirstOf(ChipPlaces(s, FALSE)))
                /\ CoresAsClaimed(s, r)
                /\ r.memory = NumberAt(s, FirstOf(Places(s, { <<"gb", "unified", "memory">> }, {""})))
                /\ r.storage = StorageAt(s, FirstOf(Places(s, { <<"gb", "storage">>, <<"tb", "storage">> }, {""})))

\* C20 (amended): each field is taken from the first pattern of its list
\* that matches anywhere in the text, at that pattern's first match: the
\* chip from the first "Apple M<k> [Pro|Max|Ultra] chip" with k from 1 to 4
\* and, if there is none, from the first "M<k> [Pro|Max|Ultra] chip"; the
\* cores from the first "<n>-core CPU", "<n>-core GPU", "<n>-core Neural
\* Engine"; memory from the first "<m>GB [unified] memory" and, if there is
\* none, from the first "memory[:] <m>GB"; storage from the first "<s>GB|TB
\* storage" and, if there is none, from the first "storage[:] <s>GB|TB"; a
\* field none of whose patterns matches is the empty string.
C20_FirstPatternFirstMatch ==
    fname = "mac.extract_specs_from_text" =>
        \A k \in 1..Len(fres) :
            LET s == text_lower(farg)
                r == fres[k]
                mem1 == Places(s, { <<"gb", "unified", "memory">>, <<"gb", "memory">> }, {""})
                mem2 == Places(s, { <<"memory", "gb">> }, {"", ":"})
                sto1 == Places(s, { <<"gb", "storage">>, <<"tb", "storage">> }, {""})
                sto2 == Places(s, { <<"storage", "gb">>, <<"storage", "tb">> }, {"", ":"})
            IN  /\ r.chip = IF AppleChipPlaces(s, TRUE) # {}
                            THEN ChipName(s, FirstOf(AppleChipPlaces(s, TRUE)))
                            ELSE ChipName(s, FirstOf(ChipPlaces(s, TRUE)))
                /\ CoresAsClaimed(s, r)
                /\ r.memory = IF mem1 # {} THEN NumberAt(s, FirstOf(mem1))
                              ELSE IF mem2 # {} THEN NumberAt(s, FirstOf(mem2) + 1)
                              ELSE <<>>
                /\ r.storage = IF sto1 # {} THEN StorageAt(s, FirstOf(sto1))
                               ELSE IF sto2 # {} THEN StorageAt(s, FirstOf(sto2) + 1)
                               ELSE StorageAt(s, 0)

\* A text that mentions "M2 chip" and then "Apple M3 Pro chip" was given,
\* and the chip returned is M3 PRO.
C20_Witness ==
    /\ fname = "mac.extract_specs_from_text"
    /\ Len(fres) >= 1
    /\ Len(farg) = 6
    /\ farg[1].w = "M" /\ farg[1].n = 2 /\ farg[2].w = "chip"
    /\ farg[3].w = "Apple" /\ farg[4].n = 3 /\ farg[5].w = "Pro"
    /\ fres[1].chip = << [ w |-> "M", n |-> 3 ], [ w |-> "PRO", n |-> 0 ] >>

\* The case size a Watch name states: its word that ends in "mm".
CaseSizes(name) == { StripPunct(name[i]) : i \in 1..Len(name) } \cap {"40mm", "44mm"}

KeyWords(k) == { StripPunct(k.name[i]) : i \in 1..Len(k.name) }

\* C21: the grouping key of a Watch row named by the Watch scraper (model,
\* connectivity, case size, colour and material) contains the model, the
\* case size and the connectivity, with the US price; two Watch rows that
\* differ in case size never get the same key.
C21_WatchKeyHasCaseSize ==
    (ctype = "watch" /\ cpc = "done") =>
        \A i, j \in 1..Len(InputRows) :
            LET ki == create_grouping_key(InputRows[i], ctype)
                kj == create_grouping_key(InputRows[j], ctype)
            IN  /\ {"Watch", "SE", "GPS"} \subseteq KeyWords(ki)
                /\ CaseSizes(InputRows[i].PRODUCT_NAME) \subseteq KeyWords(ki)
                /\ ki.price = InputRows[i].Price["US"]
                /\ CaseSizes(InputRows[i].PRODUCT_NAME) # CaseSizes(InputRows[j].PRODUCT_NAME)
                      => ki # kj

\* The name with every known colour word removed.
WithoutColours(name) == SelectSeq(name, LAMBDA w : Lower(w) \notin SingleColors)

\* C22: for AirPods and TV/Home, as main passes them, the grouping key is
\* the name with every known colour word removed (a dash left at the end
\* aside) and the US price: two rows with equal Price_US whose names differ
\* only by a known colour word fall into the same group.
C22_ColourWordsRemoved ==
    (ctype \in {"airpods", "tv/home"} /\ cpc = "done") =>
        \A i, j \in 1..Len(InputRows) :
            LET ki == create_grouping_key(InputRows[i], ctype)
                kj == create_grouping_key(InputRows[j], ctype)
                wi == WithoutColours(InputRows[i].PRODUCT_NAME)
                wj == WithoutColours(InputRows[j].PRODUCT_NAME)
            IN  /\ ki.name \in { wi, SelectSeq(wi, LAMBDA w : w # "-") }
                /\ ki.price = InputRows[i].Price["US"]
                /\ (wi = wj /\ InputRows[i].Price["US"] = InputRows[j].Price["US"]) => ki = kj

\* create_grouping_key was called on an iPad row that has a name.
IpadKeyCalled ==
    /\ fname = "create_grouping_key"
    /\ farg.t = "ipad"
    /\ farg.row.PRODUCT_NAME # NaNName
    /\ Len(fres) >= 1

\* C23 (as stated): the iPad key of a name with " - " is the part before the
\* first " - "; the key of a name without it is the iPhone key of the same
\* name, the last word dropped if it is a known colour or shorter than 8
\* characters.
C23_IpadKeyAsIphone ==
    IpadKeyCalled =>
        \A k \in 1..Len(fres) :
            LET name == farg.row.PRODUCT_NAME
            IN  IF HasDash(name) THEN fres[k].name = BeforeDash(name)
                ELSE fres[k].name = create_grouping_key(farg.row, "iphone").name

\* C23 (amended): the iPad key of a name with " - " is the part before the
\* first " - "; of a name without it, the name less its last word if the
\* name has two words or more and the last is a known colour, and the whole
\* name otherwise, however short the last word is.
C23_IpadKeyDropsColourOnly ==
    IpadKeyCalled =>
        \A k \in 1..Len(fres) :
            LET name == farg.row.PRODUCT_NAME
                last == name[Len(name)]
                colour == Len(name) > 1 /\ Lower(last) \in SingleColors
            IN  IF HasDash(name) THEN fres[k].name = BeforeDash(name)
                ELSE \/ colour /\ Append(fres[k].name, last) = name
                     \/ ~colour /\ fres[k].name = name

\* The key of "iPad Pro 11-inch" was computed and is the whole name.
C23_Witness ==
    /\ IpadKeyCalled
    /\ farg.row.PRODUCT_NAME = <<"iPad", "Pro", "11-inch">>
    /\ fres[1].name = <<"iPad", "Pro", "11-inch">>


(***************************************************************************)
(* The requests of one scraper run.                                        *)
(***************************************************************************)
ProductRequests == { i \in 1..Len(requests) : requests[i].kind = "product" }

EachPageOnce ==
    /\ \A i, j \in ProductRequests :
         (requests[i].model = requests[j].model /\ requests[i].region = requests[j].region) => i = j
    /\ pc = "done" =>
         \A m \in Models, c \in RegionCodes :
           \E i \in ProductRequests : requests[i].model = m /\ requests[i].region = c

\* C24: during one scraper run every request is preceded by the
\* REQUEST_DELAY pause, and each (model, region) product page is requested
\* exactly once, a failed request never being retried.
C24_EveryRequestDelayed ==
    /\ \A i \in 1..Len(requests) : requests[i].delayed
    /\ EachPageOnce


\* The input rows folded into output row g of the consolidated table.
FoldedInto(g) == group_items(InputRows, ctype, group_keys(InputRows, ctype)[g])

\* Every row folded into output row g has the output row's price in region d.
PriceAgrees(g, d) ==
    \A i \in 1..Len(FoldedInto(g)) : FoldedInto(g)[i].Price[d] = consolidated[g].Price[d]

\* C25: the consolidator only folds rows that agree on price: for every
\* output row and every configured region, every input row folded into it
\* has the same Price_<REGION> as the output row, for every product line.
C25_FoldedRowsAgreeOnPrice ==
    cpc = "done" =>
        \A g \in 1..Len(consolidated) : \A d \in Displays : PriceAgrees(g, d)


(***************************************************************************)
(* The pipeline: a scraper, smart_consolidate_colors.py and                *)
(* convert_to_json.py, run one after the other, again and again, over the  *)
(* files the earlier runs left.  One scraper is part of the pipeline; the  *)
(* other lines have no files.  A CSV file is told by the run that wrote    *)
(* its table and by what the table holds: "rows", "unnamed" (rows, one of  *)
(* a product sold in Taiwan only, whose PRODUCT_NAME is missing, in a      *)
(* group the consolidator raises on) or "empty" (no records scraped).      *)
(* Rates are in tenths, a timestamp is the number of the run, and every    *)
(* file that is written is written whole.                                  *)
(***************************************************************************)
\* get_exchange_rates without the else branch that reads exchange_rate.json.
get_exchange_rates_default_only(fetched, file, now) ==
    LET default == [TWD |-> 315, lastUpdated |-> now, source |-> "Cathay Bank"]
    IN  IF fetched # <<>>
        THEN [ exchange_rates |-> [ default EXCEPT !.TWD = fetched[1] ],
               file |-> [state |-> "json", TWD |-> fetched[1], lastUpdated |-> now,
                         source |-> "Cathay Bank"] ]
        ELSE [ exchange_rates |-> default, file |-> file ]

\* get_exchange_rates: the rates returned and exchange_rate.json as it is
\* left.  current_rate is <<>> for None; a file whose JSON does not parse is
\* "corrupt", one whose rates.TWD is a string is "text".
get_exchange_rates(fetched, file, now) ==
    LET default == [TWD |-> 315, lastUpdated |-> now, source |-> "Cathay Bank"]
    IN  IF fetched # <<>>
        THEN [ exchange_rates |-> [ default EXCEPT !.TWD = fetched[1] ],
               file |-> [state |-> "json", TWD |-> fetched[1], lastUpdated |-> now,
                         source |-> "Cathay Bank"] ]
        ELSE [ exchange_rates |->
                   IF file.state = "json" /\ file.TWD > 0
                   THEN [TWD |-> file.TWD, lastUpdated |-> file.lastUpdated, source |-> file.source]
                   ELSE default,
               file |-> file ]

\* "<line>_products_consolidated.csv" if os.path.exists(...) else
\* "<line>_products_merged.csv"
input_file(merged_file, cons_file) ==
    IF cons_file.state # "absent"
    THEN [from |-> "consolidated", state |-> cons_file.state, run |-> cons_file.run]
    ELSE [from |-> "merged", state |-> merged_file.state, run |-> merged_file.run]

\* The rows pd.read_csv gives csv_to_json for a file: none for a missing file
\* and for one with no columns, priced products otherwise.
rows_of(file) ==
    IF file.state \in {"absent", "empty"} THEN <<>>
    ELSE << [ c \in {"PRODUCT_NAME", "Price_US", "Price_TW"} |->
                CASE c = "Price_US" -> <<8>> [] c = "Price_TW" -> <<243>> [] OTHER -> <<"X">> ] >>

\* convert_to_json.main(): the exchange rates are got, every line is
\* converted from its input file (Watch, AirPods and TV/Home only where the
\* file exists), index.json is written and the exit status set.
convert_to_json_main(fetched, rate_file, merged_file, cons_file, json, now) ==
    LET got == get_exchange_rates(fetched, rate_file, now)
        file(l) == input_file(merged_file[l], cons_file[l])
        success(l) ==
            /\ l \in {"iphone", "ipad", "mac"} \/ file(l).state # "absent"
            /\ \E r \in csv_to_json(rows_of(file(l)), l, got.exchange_rates.TWD) : r.ok
    IN  [ exchange_rates |-> got.exchange_rates,
          rate_file |-> got.file,
          json |-> [ l \in LineNames |->
                       IF success(l)
                       THEN [state |-> "json", table |-> file(l).run, from |-> file(l).from,
                             written |-> now, TWD |-> got.exchange_rates.TWD]
                       ELSE json[l] ],
          datasets |-> SelectSeq(DataLines, success),
          exit |-> IF success("iphone") \/ success("ipad") \/ success("mac") THEN 0 ELSE 1 ]

\* smart_consolidate_colors.main(): process_product_file for every line from
\* line i on.  A missing input is skipped; pd.read_csv raises on an empty
\* file and consolidate_products on a missing name, which ends main.
RECURSIVE consolidate_main(_, _, _)
consolidate_main(i, merged_file, cons_file) ==
    IF i > Len(DataLines) THEN cons_file
    ELSE LET input == merged_file[DataLines[i]]
         IN  CASE input.state = "absent" -> consolidate_main(i + 1, merged_file, cons_file)
               [] input.state \in {"empty", "unnamed"} -> cons_file
               [] OTHER -> consolidate_main(i + 1, merged_file,
                               [ cons_file EXCEPT ![DataLines[i]] = [state |-> "rows", run |-> input.run] ])

\* The first run finds no CSV and no JSON file, and exchange_rate.json as
\* anything may have left it.
InitPipeline ==
    /\ ScrapeIdle
    /\ ConsIdle
    /\ CallIdle
    /\ pline \in LineNames
    /\ ppc = "scrape"
    /\ run = 1
    /\ merged_csv = [ l \in LineNames |-> NoCsv ]
    /\ consolidated_csv = [ l \in LineNames |-> NoCsv ]
    /\ data_json = [ l \in LineNames |-> NoJson ]
    /\ exchange_rate_json \in
         { NoRateFile,
           [ NoRateFile EXCEPT !.state = "corrupt" ],
           [ NoRateFile EXCEPT !.state = "text" ],
           [state |-> "json", TWD |-> 0, lastUpdated |-> 0, source |-> "Cathay Bank"],
           [state |-> "json", TWD |-> 300, lastUpdated |-> 0, source |-> "Cathay Bank"] }
    /\ current_rate = <<>>
    /\ exchange_rates = NoRates
    /\ fetched_rates = NoRates
    /\ index_json = <<>>
    /\ exit_status = 0

\* The scraper's main(): merged_data.to_csv(output_file) writes the merged
\* table of the run, unless requests.get raised before.  There is no scraper
\* for TV/Home.
ScraperMain ==
    /\ ppc = "scrape"
    /\ run <= MaxRuns
    /\ \E outcome \in
           IF pline = "tvhome" THEN {"no scraper"}
           ELSE {"rows", "unnamed", "empty"}
                \cup (IF fetch_raises(pline, "network") THEN {"raised"} ELSE {}) :
         merged_csv' = IF outcome \in {"raised", "no scraper"} THEN merged_csv
                       ELSE [ merged_csv EXCEPT ![pline] = [state |-> outcome, run |-> run] ]
    /\ ppc' = "consolidate"
    /\ UNCHANGED <<pline, run, consolidated_csv, data_json, exchange_rate_json, current_rate,
                   exchange_rates, fetched_rates, index_json, exit_status>>
    /\ UNCHANGED <<scrape_vars, cons_vars, call_vars>>

\* smart_consolidate_colors.main()
ConsolidatorMain ==
    /\ ppc = "consolidate"
    /\ consolidated_csv' = consolidate_main(1, merged_csv, consolidated_csv)
    /\ ppc' = "convert"
    /\ UNCHANGED <<pline, run, merged_csv, data_json, exchange_rate_json, current_rate,
                   exchange_rates, fetched_rates, index_json, exit_status>>
    /\ UNCHANGED <<scrape_vars, cons_vars, call_vars>>

\* convert_to_json.main(), which ends the run.  fetch_exchange_rate returns
\* None, or the float of the digits and dots of the selling-rate cell, which
\* is 0.0 for a cell showing 0.
ConvertMain ==
    /\ ppc = "convert"
    /\ \E fetched \in { <<>>, <<0>>, <<310>> } :
         LET done == convert_to_json_main(fetched, exchange_rate_json, merged_csv,
                                          consolidated_csv, data_json, run)
         IN  /\ current_rate' = fetched
             /\ exchange_rates' = done.exchange_rates
             /\ fetched_rates' = IF fetched # <<>> THEN done.exchange_rates ELSE fetched_rates
             /\ exchange_rate_json' = done.rate_file
             /\ data_json' = done.json
             /\ index_json' = done.datasets
             /\ exit_status' = done.exit
    /\ ppc' = "scrape"
    /\ run' = run + 1
    /\ UNCHANGED <<pline, merged_csv, consolidated_csv>>
    /\ UNCHANGED <<scrape_vars, cons_vars, call_vars>>

NextPipeline == ScraperMain \/ ConsolidatorMain \/ ConvertMain

SpecPipeline == InitPipeline /\ [][NextPipeline]_vars


(***************************************************************************)
(* Properties of the pipeline.                                             *)
(***************************************************************************)
\* C26: across any sequence of pipeline runs, the <line>_data.json written
\* by a run is derived from the merged table written by that same run: when
\* the consolidation of the line fails or is skipped in the run, the
\* conversion falls back to the run's merged CSV and never uses a
\* consolidated CSV left over from an earlier run.
C26_JsonFromThisRunsTable ==
    \A l \in LineNames :
        (data_json[l].state = "json" /\ merged_csv[l].run = data_json[l].written)
            => data_json[l].table = data_json[l].written


\* The rate stored by the most recent call whose fetch succeeded; before the
\* first such call, the one exchange_rate.json holds from earlier on.
StoredRates ==
    IF fetched_rates # NoRates THEN fetched_rates
    ELSE IF exchange_rate_json.state = "json"
    THEN [TWD |-> exchange_rate_json.TWD, lastUpdated |-> exchange_rate_json.lastUpdated,
          source |-> exchange_rate_json.source]
    ELSE NoRates

C28_RatePositive ==
    exchange_rates # NoRates =>
        /\ exchange_rates.TWD > 0
        /\ \A l \in LineNames :
             ~csv_to_json_raises(rows_of(input_file(merged_csv[l], consolidated_csv[l])),
                                 exchange_rates.TWD)


\* The lines whose <line>_data.json the latest run of convert_to_json wrote.
ConvertedLines == { l \in LineNames : data_json[l].state = "json" /\ data_json[l].written = run - 1 }

DatasetsAreConverted ==
    /\ { index_json[i] : i \in 1..Len(index_json) } = ConvertedLines
    /\ Len(index_json) = Cardinality(ConvertedLines)

\* C29: convert_to_json.main writes an index.json whose datasets are exactly
\* the product lines whose conversion succeeded in this run, and exits with
\* status 1 only when that list is empty, no product line at all having been
\* converted.
C29_ExitOneOnlyIfNoDataset ==
    exchange_rates # NoRates =>
        /\ DatasetsAreConverted
        /\ exit_status = 1 => index_json = <<>>


\* A result of severity "error" was recorded among the results logged.
ErrorRecorded(results) == \E i \in 1..Len(results) : results[i].severity = "error"

\* C30: the data validator reports success (main returns a true value and
\* the process exits with status 0) exactly when no validation result of
\* severity "error" was recorded during run_all_validations, and reports
\* failure (status 1) exactly when at least one was recorded.
C30_SuccessIffNoError ==
    fname = "test_data_validator.main" =>
        \A k \in 1..Len(fres) :
            /\ (fres[k].success = "True" /\ fres[k].status = 0) <=> ~ErrorRecorded(farg)
            /\ fres[k].status = 1 <=> ErrorRecorded(farg)

====
